---------------------------- MODULE Spec2Model ----------------------------
(***************************************************************************)
(* A model of the CME report ETL: the SQLite storage layer of              *)
(* src/src/database.py (composite-key upserts, the file-processing ledger, *)
(* one transaction per operation) and the orchestrator of src/etl_main.py  *)
(* (scan_files, process_file, process_all), and the extractors of          *)
(* src/src/parsers.py (clean_numeric_string, parse_date_string, the        *)
(* inventory table extractor and the delivery notice page scan).           *)
(***************************************************************************)
EXTENDS Integers, Sequences, FiniteSets, TLC

VARIABLES
    db,        \* the committed database: [inventory, delivery, ledger], each a set of rows
    now,       \* the wall clock read by CURRENT_TIMESTAMP and datetime.now()
    ret,       \* the last storage call: its name, arguments, return value and raised error
    lastInv,   \* history: per inventory key, the record of the last committed upsert
    lastDel,   \* history: per delivery key, the record of the last committed upsert
    lastLog,   \* history: per path, the row of the last committed ledger write and
               \* the status it replaced
    dataDir,   \* the files in the data directory
    pc,        \* where the ETL process is: idle, inside process_file, or exited
    run,       \* the locals of process_all: the flags, the scanned files, the loop index
    cur,       \* the locals of the running process_file call
    runs,      \* the number of runs started
    px         \* the extractor call under way: its input, its locals, its result

vars == <<db, now, ret, lastInv, lastDel, lastLog, dataDir, pc, run, cur, runs, px>>

etlVars == <<dataDir, pc, run, cur, runs, px>>

storeVars == <<db, now, ret, lastInv, lastDel, lastLog>>

-----------------------------------------------------------------------------
(* Bounds and value domains *)

\* the clock runs from 0 to MaxTime
MaxTime == 1

\* SQL NULL / Python None in a text column
NULL == "<null>"
\* no exception
NoError == "<none>"

\* sqlite3 errors a storage call can raise
IntegrityError == "NOT NULL constraint failed"
OperationalError == "disk I/O error"
\* Ctrl-C: a BaseException, which no except Exception clause catches
KeyboardInterrupt == "KeyboardInterrupt"

\* an exception raised inside an extractor (pandas, pdfplumber, a bad cell)
ParseError == "parse error"

\* what can hit a storage call: the exception error is raised when statement
\* number at is about to run (at = 0: nothing is raised)
NoFault == [at |-> 0, error |-> NoError]

\* error_message texts of process_file
MsgNoData == "no valid data extracted"
MsgUnknownType == "unknown file type"

InvRec(d, p, dep, reg) ==
    [activity_date |-> d, product |-> p, depository |-> dep,
     registered |-> reg, eligible |-> reg + 1, total |-> 2 * reg + 1,
     unit |-> "Troy Ounces", report_date |-> NULL]

DelRec(d, p, m, daily, rt, src) ==
    [intent_date |-> d, product |-> p, contract_month |-> m,
     daily_total |-> daily, cumulative |-> daily + 100,
     report_type |-> rt, source_file |-> src]

\* the inventory records the calls are made with
invA1 == InvRec("2024-01-13", "Gold", "ACME Vault", 1000)
invA2 == InvRec("2024-01-13", "Gold", "ACME Vault", 2000)
invB1 == InvRec("2024-01-13", "Gold", "Brinks", 1000)
invNull == InvRec("2024-01-13", "Gold", NULL, 1000)

\* the delivery records the calls are made with
delA1 == DelRec("2026-01-12", "Gold", "JANUARY 2026", 15, "Daily", "a_delivery_daily.pdf")
delA2 == DelRec("2026-01-12", "Gold", "JANUARY 2026", 20, "Daily", "a_delivery_daily.pdf")
delF1 == DelRec("2026-01-12", "Gold", "FEBRUARY 2026", 15, "Daily", "a_delivery_daily.pdf")
delNull == DelRec(NULL, "Gold", "JANUARY 2026", 15, "Daily", "a_delivery_daily.pdf")

InvBatches ==
    { <<>>, <<invA1>>, <<invA2>>, <<invA1, invB1>>, <<invA1, invA2>>,
      <<invB1, invNull>> }

DelBatches ==
    { <<>>, <<delA1>>, <<delA2, delF1>>, <<delA2, delA1>>, <<delF1, delNull>> }

InvColumns ==
    {"activity_date", "product", "depository", "registered", "eligible",
     "total", "unit", "report_date"}

DelColumns ==
    {"intent_date", "product", "contract_month", "daily_total", "cumulative",
     "report_type", "source_file"}

LogColumns ==
    {"file_path", "file_name", "file_type", "file_size", "status",
     "records_inserted", "error_message", "processed_at"}

\* r restricted to the columns cols
Project(r, cols) == [c \in cols |-> r[c]]

-----------------------------------------------------------------------------
(* The schema: primary keys and NOT NULL columns *)

InvKey(r) == <<r.activity_date, r.product, r.depository>>

DelKey(r) == <<r.intent_date, r.product, r.contract_month, r.report_type>>

LogKey(r) == r.file_path

KeyOf(tbl, r) ==
    CASE tbl = "inventory" -> InvKey(r)
      [] tbl = "delivery" -> DelKey(r)
      [] tbl = "ledger" -> <<LogKey(r)>>

NotNullColumns(tbl) ==
    CASE tbl = "inventory" -> {"activity_date", "product", "depository"}
      [] tbl = "delivery" -> {"intent_date", "product", "contract_month", "report_type"}
      [] tbl = "ledger" -> {"file_path", "file_name", "file_type", "status"}


-----------------------------------------------------------------------------
(* The files of the data directory *)

\* every path, in ascending (lexicographic) path order
AllPaths == <<"a_delivery_daily.pdf", "b_gold_stocks.xls", "c_readme.txt">>

PathSet == {AllPaths[i] : i \in 1..Len(AllPaths)}

\* the place of path p in ascending path order
Rank(p) == CHOOSE i \in 1..Len(AllPaths) : AllPaths[i] = p

\* file_path.suffix.lower()
Suffix(p) ==
    CASE p = "a_delivery_daily.pdf" -> ".pdf"
      [] p = "b_gold_stocks.xls" -> ".xls"
      [] p = "c_readme.txt" -> ".txt"

\* the words the lower-cased file name contains
NameWords(p) ==
    CASE p = "a_delivery_daily.pdf" -> {"delivery", "daily"}
      [] p = "b_gold_stocks.xls" -> {"gold", "stock", "stocks"}
      [] p = "c_readme.txt" -> {}

\* file_path.stat().st_size
FileSize(p) == 1024 * Rank(p)

-----------------------------------------------------------------------------
(* DatabaseManager: one transaction per operation *)

EmptyDb == [inventory |-> {}, delivery |-> {}, ledger |-> {}]

\* a table without its primary key: every statement adds a row
ExecuteNoPrimaryKey(tbl, table, row) ==
    IF \E c \in NotNullColumns(tbl) : row[c] = NULL
    THEN [table |-> table, error |-> IntegrityError]
    ELSE [table |-> table \cup {row}, error |-> NoError]

\* INSERT OR IGNORE: a row whose primary key is already stored is dropped
ExecuteOrIgnore(tbl, table, row) ==
    IF \E c \in NotNullColumns(tbl) : row[c] = NULL
    THEN [table |-> table, error |-> IntegrityError]
    ELSE IF \E x \in table : KeyOf(tbl, x) = KeyOf(tbl, row)
    THEN [table |-> table, error |-> NoError]
    ELSE [table |-> table \cup {row}, error |-> NoError]

\* a REPLACE that deletes every row with the same first key column
ExecuteReplacingByFirstColumn(tbl, table, row) ==
    IF \E c \in NotNullColumns(tbl) : row[c] = NULL
    THEN [table |-> table, error |-> IntegrityError]
    ELSE [table |-> {x \in table : KeyOf(tbl, x)[1] # KeyOf(tbl, row)[1]} \cup {row},
          error |-> NoError]

\* INSERT OR REPLACE of one row: a NOT NULL violation aborts the statement,
\* a row with the same primary key is deleted before the insert
Execute(tbl, table, row) ==
    IF \E c \in NotNullColumns(tbl) : row[c] = NULL
    THEN [table |-> table, error |-> IntegrityError]
    ELSE [table |-> {x \in table : KeyOf(tbl, x) # KeyOf(tbl, row)} \cup {row},
          error |-> NoError]

\* cursor.executemany: the statements run in list order inside the open
\* transaction; the fault is raised at its statement; the first exception
\* ends the run and leaves the earlier statements' effects uncommitted
RECURSIVE ExecuteManyFrom(_, _, _, _, _)
ExecuteManyFrom(tbl, table, rows, i, fault) ==
    IF i > Len(rows) THEN [table |-> table, error |-> NoError]
    ELSE IF i = fault.at THEN [table |-> table, error |-> fault.error]
    ELSE LET r == Execute(tbl, table, rows[i])
         IN  IF r.error # NoError THEN r
             ELSE ExecuteManyFrom(tbl, r.table, rows, i + 1, fault)

ExecuteMany(tbl, table, rows, fault) == ExecuteManyFrom(tbl, table, rows, 1, fault)

\* get_connection without its except branch: whatever the body wrote is committed
GetConnectionNoRollback(before, after, error, fault, n) ==
    [db |-> after, raised |-> IF error # NoError THEN error ELSE NoError]

\* get_connection: commit when the body ends normally (the commit is
\* statement number n + 1 and can be hit by the fault too); on an Exception
\* rollback and re-raise; a KeyboardInterrupt passes the except clause, and
\* the finally clause closes the connection, which drops what is uncommitted
get_connection(before, after, error, fault, n) ==
    LET raised == IF error # NoError THEN error
                  ELSE IF fault.at = n + 1 THEN fault.error
                  ELSE NoError
    IN  IF raised = NoError THEN [db |-> after, raised |-> NoError]
        ELSE IF raised = KeyboardInterrupt THEN [db |-> before, raised |-> raised]
        ELSE [db |-> before, raised |-> raised]

\* the row INSERT stores for a record: created_at takes DEFAULT CURRENT_TIMESTAMP
InventoryRow(record, ts) ==
    [c \in InvColumns \cup {"created_at"} |->
        IF c = "created_at" THEN ts ELSE record[c]]

DeliveryRow(record, ts) ==
    [c \in DelColumns \cup {"created_at"} |->
        IF c = "created_at" THEN ts ELSE record[c]]

insert_inventory_records(d, records, ts, fault) ==
    IF records = <<>> THEN [db |-> d, value |-> 0, raised |-> NoError]
    ELSE LET insert_data == [i \in 1..Len(records) |-> InventoryRow(records[i], ts)]
             exec == ExecuteMany("inventory", d.inventory, insert_data, fault)
             conn == get_connection(d, [d EXCEPT !.inventory = exec.table],
                                    exec.error, fault, Len(records))
         IN  [db |-> conn.db,
              value |-> IF conn.raised = NoError THEN Len(records) ELSE 0,
              raised |-> conn.raised]

\* insert_delivery_records without the test for an empty list
InsertDeliveryAlwaysConnecting(d, records, ts, fault) ==
    LET insert_data == [i \in 1..Len(records) |-> DeliveryRow(records[i], ts)]
        exec == ExecuteMany("delivery", d.delivery, insert_data, fault)
        conn == get_connection(d, [d EXCEPT !.delivery = exec.table],
                               exec.error, fault, Len(records))
    IN  [db |-> conn.db,
         value |-> IF conn.raised = NoError THEN Len(records) ELSE 0,
         raised |-> conn.raised]

insert_delivery_records(d, records, ts, fault) ==
    IF records = <<>> THEN [db |-> d, value |-> 0, raised |-> NoError]
    ELSE LET insert_data == [i \in 1..Len(records) |-> DeliveryRow(records[i], ts)]
             exec == ExecuteMany("delivery", d.delivery, insert_data, fault)
             conn == get_connection(d, [d EXCEPT !.delivery = exec.table],
                                    exec.error, fault, Len(records))
         IN  [db |-> conn.db,
              value |-> IF conn.raised = NoError THEN Len(records) ELSE 0,
              raised |-> conn.raised]

\* the arguments of one log_file_processing call
LogArgs(path, file_type, status, records_inserted, error_message) ==
    [file_path |-> path, file_name |-> path, file_type |-> file_type,
     file_size |-> FileSize(path), status |-> status,
     records_inserted |-> records_inserted, error_message |-> error_message]

LedgerRow(args, ts) ==
    [c \in LogColumns |-> IF c = "processed_at" THEN ts ELSE args[c]]

\* an upsert that keeps the stored error_message when the call passes none
LogKeepingErrorMessage(d, args, ts, fault) ==
    LET old == {x \in d.ledger : x.file_path = args.file_path}
        kept == IF args.error_message = NULL /\ old # {}
                THEN [args EXCEPT !.error_message = (CHOOSE x \in old : TRUE).error_message]
                ELSE args
        exec == ExecuteMany("ledger", d.ledger, <<LedgerRow(kept, ts)>>, fault)
        conn == get_connection(d, [d EXCEPT !.ledger = exec.table], exec.error, fault, 1)
    IN  [db |-> conn.db, value |-> 0, raised |-> conn.raised]

log_file_processing(d, args, ts, fault) ==
    LET exec == ExecuteMany("ledger", d.ledger, <<LedgerRow(args, ts)>>, fault)
        conn == get_connection(d, [d EXCEPT !.ledger = exec.table], exec.error, fault, 1)
    IN  [db |-> conn.db, value |-> 0, raised |-> conn.raised]

\* the query without its status condition
IsFileLogged(d, path) ==
    \E row \in d.ledger : row.file_path = path

\* SELECT status ... WHERE file_path = ? AND status = 'success'; fetchone() is not None
is_file_processed(d, path) ==
    \E row \in d.ledger : row.file_path = path /\ row.status = "success"

-----------------------------------------------------------------------------
(* History of the committed writes *)

\* again: the call repeats the call before it (same operation, same arguments),
\* which had been committed
NoCall == [op |-> "none", args |-> <<>>, value |-> 0, raised |-> NoError, again |-> FALSE]

Repeats(op, args) == ret.op = op /\ ret.raised = NoError /\ ret.args = args

EmptyMap == [k \in {} |-> <<>>]

\* f with key k set to v
Put(f, k, v) == [x \in DOMAIN f \cup {k} |-> IF x = k THEN v ELSE f[x]]

\* f after the records of one committed batch, in batch order
RECURSIVE PutAll(_, _, _, _)
PutAll(f, tbl, records, i) ==
    IF i > Len(records) THEN f
    ELSE PutAll(Put(f, KeyOf(tbl, records[i]), records[i]), tbl, records, i + 1)

\* the faults of a call of n statements: none, or an I/O error or an
\* interrupt at one of the statements or at the commit (statement n + 1); a
\* call that opens no connection meets none of them
Faults(n) ==
    {NoFault} \cup [at : 1..(n + 1), error : {OperationalError, KeyboardInterrupt}]

\* one call of insert_inventory_records, with its effect on the database
CallInsertInventory(records, fault) ==
    LET r == insert_inventory_records(db, records, now, fault)
    IN  /\ db' = r.db
        /\ ret' = [op |-> "insert_inventory_records", args |-> records,
                   value |-> r.value, raised |-> r.raised,
                   again |-> Repeats("insert_inventory_records", records)]
        /\ lastInv' = IF r.raised = NoError
                      THEN PutAll(lastInv, "inventory", records, 1)
                      ELSE lastInv
        /\ UNCHANGED <<now, lastDel, lastLog>>

\* one call of insert_delivery_records
CallInsertDelivery(records, fault) ==
    LET r == insert_delivery_records(db, records, now, fault)
    IN  /\ db' = r.db
        /\ ret' = [op |-> "insert_delivery_records", args |-> records,
                   value |-> r.value, raised |-> r.raised,
                   again |-> Repeats("insert_delivery_records", records)]
        /\ lastDel' = IF r.raised = NoError
                      THEN PutAll(lastDel, "delivery", records, 1)
                      ELSE lastDel
        /\ UNCHANGED <<now, lastInv, lastLog>>

\* one call of log_file_processing
CallLogFileProcessing(args, fault) ==
    LET r == log_file_processing(db, args, now, fault)
    IN  /\ db' = r.db
        /\ ret' = [op |-> "log_file_processing", args |-> <<args>>,
                   value |-> 0, raised |-> r.raised,
                   again |-> Repeats("log_file_processing", <<args>>)]
        /\ lastLog' = IF r.raised = NoError
                      THEN Put(lastLog, args.file_path,
                               [row |-> LedgerRow(args, now),
                                replaced |-> IF args.file_path \in DOMAIN lastLog
                                             THEN lastLog[args.file_path].row.status
                                             ELSE NULL])
                      ELSE lastLog
        /\ UNCHANGED <<now, lastInv, lastDel>>

-----------------------------------------------------------------------------
(* The initial state: an empty database, no run started *)

\* reprocess, archive: the flags of process_all; direct: process_file was called
\* on its own; files, i: the scanned list and the loop index; history: listed,
\* the matching files of the directory at scan time; done, the ledger rows that
\* made scan_files leave a file out; finished, the files process_file returned for
\* malformed, the files whose extractor body raised
NoRun == [reprocess |-> FALSE, archive |-> FALSE, direct |-> FALSE,
          files |-> <<>>, i |-> 0, listed |-> {}, done |-> {}, finished |-> <<>>,
          malformed |-> {}]

\* path, file_type, records, error: the locals of process_file (error is str(e)
\* of the exception caught); result: its return value; history: parsed, the
\* extractor has returned; inserted, the upsert was committed; failed, the call
\* that raised; writes, the ledger writes committed by this call
NoFile == [path |-> NULL, file_type |-> NULL, records |-> <<>>, error |-> NoError,
           result |-> FALSE, parsed |-> FALSE, inserted |-> FALSE, failed |-> NULL,
           writes |-> 0]

\* no extractor call under way
NoParse == [op |-> "none"]

Init ==
    /\ db = EmptyDb
    /\ now = 0
    /\ ret = NoCall
    /\ lastInv = EmptyMap
    /\ lastDel = EmptyMap
    /\ lastLog = EmptyMap
    /\ dataDir = PathSet
    /\ pc = "idle"
    /\ run = NoRun
    /\ cur = NoFile
    /\ runs = 0
    /\ px = NoParse

\* time passes
Tick ==
    /\ now < MaxTime
    /\ now' = now + 1
    /\ UNCHANGED <<db, ret, lastInv, lastDel, lastLog, etlVars>>

-----------------------------------------------------------------------------
(* The two upserts called directly, in any order, with any of the batches *)

InsertInventory ==
    \E records \in InvBatches : \E fault \in Faults(Len(records)) :
        /\ CallInsertInventory(records, fault)
        /\ UNCHANGED etlVars

InsertDelivery ==
    \E records \in DelBatches : \E fault \in Faults(Len(records)) :
        /\ CallInsertDelivery(records, fault)
        /\ UNCHANGED etlVars

UpsertNext ==
    \/ InsertInventory
    \/ InsertDelivery
    \/ Tick

SpecUpsert == Init /\ [][UpsertNext]_vars

-----------------------------------------------------------------------------
(* The ledger called directly *)

LogStatuses ==
    { <<"success", 1, NULL>>, <<"failed", 0, MsgNoData>>,
      <<"skipped", 0, MsgUnknownType>> }

\* the ledger writes the calls are made with
LogInputs ==
    { LogArgs(p, IF s[1] = "skipped" THEN "unknown" ELSE "inventory", s[1], s[2], s[3]) :
        p \in {AllPaths[1], AllPaths[2]}, s \in LogStatuses }

LogFileProcessing ==
    \E args \in LogInputs : \E fault \in Faults(1) :
        /\ CallLogFileProcessing(args, fault)
        /\ UNCHANGED etlVars

IsFileProcessed ==
    \E p \in PathSet :
        /\ ret' = [op |-> "is_file_processed", args |-> <<p>>,
                   value |-> IF is_file_processed(db, p) THEN 1 ELSE 0,
                   raised |-> NoError, again |-> FALSE]
        /\ UNCHANGED <<db, now, lastInv, lastDel, lastLog, etlVars>>

LedgerNext ==
    \/ LogFileProcessing
    \/ IsFileProcessed
    \/ Tick

SpecLedger == Init /\ [][LedgerNext]_vars

-----------------------------------------------------------------------------
(* CMEDataETL: scan_files, classify_file, process_file, process_all *)

\* the number of runs (process_all or process_file calls of a fresh process)
\* explored; run number k takes place at time k
MaxRuns == 2

\* the glob patterns of scan_files, in the order they are tried
Patterns == <<".csv", ".xls", ".xlsx", ".pdf">>

\* the orders in which the operating system can list the files of S
Listings(S) ==
    {q \in [1..Cardinality(S) -> S] : \A i, j \in DOMAIN q : q[i] = q[j] => i = j}

\* data_dir.glob(pattern) for each pattern in turn, appended to all_files
RECURSIVE GlobAll(_, _)
GlobAll(listing, k) ==
    IF k > Len(Patterns) THEN <<>>
    ELSE SelectSeq(listing, LAMBDA f : Suffix(f) = Patterns[k]) \o GlobAll(listing, k + 1)

\* sorted(all_files): ascending path order
Sorted(files) == SortSeq(files, LAMBDA x, y : Rank(x) < Rank(y))

\* scan_files returning all_files as collected, without sorted()
ScanUnsorted(listing, d, reprocess) ==
    LET all_files == GlobAll(listing, 1)
    IN  IF reprocess THEN all_files
        ELSE SelectSeq(all_files, LAMBDA f : ~is_file_processed(d, f))

\* scan_files that never consults the ledger
ScanEverything(listing, d, reprocess) == Sorted(GlobAll(listing, 1))

scan_files(listing, d, reprocess) ==
    LET all_files == GlobAll(listing, 1)
    IN  IF reprocess THEN Sorted(all_files)
        ELSE Sorted(SelectSeq(all_files, LAMBDA f : ~is_file_processed(d, f)))

classify_file(p) ==
    IF "stock" \in NameWords(p) \/ "stocks" \in NameWords(p) THEN "inventory"
    ELSE IF "delivery" \in NameWords(p) \/ "notice" \in NameWords(p) THEN "delivery"
    ELSE IF Suffix(p) \in {".csv", ".xls", ".xlsx"} THEN "inventory"
    ELSE IF Suffix(p) = ".pdf" THEN "delivery"
    ELSE "unknown"

detect_report_type(p) ==
    IF "daily" \in NameWords(p) THEN "Daily"
    ELSE IF "monthly" \in NameWords(p) THEN "Monthly"
    ELSE IF "ytd" \in NameWords(p) \/ "year" \in NameWords(p) THEN "YTD"
    ELSE "Daily"

\* what InventoryParser.parse_file can return for a file: no record (nothing
\* parsed, or the parse failed) or the records of its rows
InventoryResults(p) == { <<>>, <<invA1>>, <<invA2, invB1>> }

\* what DeliveryNoticeParser.parse_file can return for a file and report type
DeliveryResults(p, report_type) ==
    { <<>>,
      <<DelRec("2026-01-12", "Gold", "JANUARY 2026", 20, report_type, p),
        DelRec("2026-01-12", "Gold", "FEBRUARY 2026", 15, report_type, p)>> }

ParseResults(p, file_type) ==
    CASE file_type = "inventory" -> InventoryResults(p)
      [] file_type = "delivery" -> DeliveryResults(p, detect_report_type(p))
      [] OTHER -> { <<>> }

\* how the body of parse_file can end for a file: with a record list, or
\* with an exception; no extractor is called for a file of unknown type
ParseBodies(p, file_type) ==
    {[records |-> r, raised |-> NoError] : r \in ParseResults(p, file_type)}
    \cup (IF file_type = "unknown" THEN {}
          ELSE {[records |-> <<>>, raised |-> ParseError]})

\* parse_file without its except clause: the exception leaves the extractor
ParseFileReraising(body) == body

\* parse_file of either extractor: an exception of the body is logged and
\* an empty list is returned
parse_file(body) ==
    IF body.raised # NoError THEN [records |-> <<>>, raised |-> NoError] ELSE body

Running == pc \in {"parse", "insert", "log", "except", "returned"}

\* the process is not running: not started, returned, or exited
Stopped == pc \in {"idle", "interrupted", "crashed"}

\* python etl_main.py [--reprocess] [--archive]: process_all scans the
\* directory and enters process_file for the first file, or returns at once
StartRun ==
    /\ Stopped
    /\ runs < MaxRuns
    /\ \E reprocess \in BOOLEAN, archive \in BOOLEAN, listing \in Listings(dataDir) :
          LET files == scan_files(listing, db, reprocess)
              listed == {f \in dataDir : \E k \in DOMAIN Patterns : Suffix(f) = Patterns[k]}
          IN  /\ run' = [NoRun EXCEPT !.reprocess = reprocess, !.archive = archive,
                                      !.files = files, !.i = 1, !.listed = listed,
                                      !.done = {r \in db.ledger :
                                                  r.file_path \in listed /\ r.status = "success"}]
              /\ IF files = <<>>
                 THEN pc' = "idle" /\ cur' = NoFile
                 ELSE pc' = "parse" /\ cur' = [NoFile EXCEPT !.path = files[1]]
    /\ runs' = runs + 1
    /\ now' = runs + 1
    /\ ret' = NoCall
    /\ UNCHANGED <<db, lastInv, lastDel, lastLog, dataDir, px>>

\* process_file called on its own for a file of the directory
StartProcessFile ==
    /\ Stopped
    /\ runs < MaxRuns
    /\ \E p \in dataDir :
          /\ run' = [NoRun EXCEPT !.direct = TRUE, !.files = <<p>>, !.i = 1]
          /\ cur' = [NoFile EXCEPT !.path = p]
    /\ pc' = "parse"
    /\ runs' = runs + 1
    /\ now' = runs + 1
    /\ ret' = NoCall
    /\ UNCHANGED <<db, lastInv, lastDel, lastLog, dataDir, px>>

\* process_file returning at once, with no ledger write, when nothing was extracted
AfterParseNoLog(file_type, records) ==
    IF file_type # "unknown" /\ records # <<>> THEN "insert"
    ELSE IF file_type = "unknown" THEN "log" ELSE "returned"

\* where process_file goes once the extractor has returned: the upsert when
\* there are records, else the ledger write
AfterParse(file_type, records) ==
    IF file_type # "unknown" /\ records # <<>> THEN "insert" ELSE "log"

\* process_file up to the return of the extractor; an exception leaving the
\* extractor would be caught by the except branch
Parse ==
    /\ pc = "parse"
    /\ LET file_type == classify_file(cur.path)
       IN  \E body \in ParseBodies(cur.path, file_type) :
              LET r == parse_file(body)
              IN  /\ IF r.raised = NoError
                     THEN /\ cur' = [cur EXCEPT !.file_type = file_type,
                                                !.records = r.records, !.parsed = TRUE]
                          /\ pc' = AfterParse(file_type, r.records)
                     ELSE /\ cur' = [cur EXCEPT !.file_type = file_type, !.parsed = TRUE,
                                                !.error = r.raised, !.failed = "parse"]
                          /\ pc' = "except"
                  /\ run' = IF body.raised = NoError THEN run
                            ELSE [run EXCEPT !.malformed = @ \cup {cur.path}]
    /\ UNCHANGED <<db, now, ret, lastInv, lastDel, lastLog, dataDir, runs, px>>

\* process_file: the upsert of the extracted records; an exception is caught
\* by the except branch
Insert ==
    /\ pc = "insert"
    /\ \E fault \in Faults(Len(cur.records)) :
          /\ IF cur.file_type = "inventory"
             THEN CallInsertInventory(cur.records, fault)
             ELSE CallInsertDelivery(cur.records, fault)
          /\ IF ret'.raised = NoError
             THEN pc' = "log" /\ cur' = [cur EXCEPT !.inserted = TRUE]
             ELSE IF ret'.raised = KeyboardInterrupt
             THEN pc' = "interrupted" /\ cur' = cur
             ELSE pc' = "except"
                  /\ cur' = [cur EXCEPT !.error = ret'.raised, !.failed = "insert"]
    /\ UNCHANGED <<dataDir, run, runs, px>>

\* the ledger write of the try block saying success without records too
TryLogArgsSuccessWithoutRecords(c) ==
    IF c.file_type = "unknown"
    THEN LogArgs(c.path, "unknown", "skipped", 0, MsgUnknownType)
    ELSE LogArgs(c.path, c.file_type, "success", Len(c.records), NULL)

\* the ledger write of the try block: skipped for an unknown type, success
\* when records were extracted, failed when none were
TryLogArgs(c) ==
    IF c.file_type = "unknown"
    THEN LogArgs(c.path, "unknown", "skipped", 0, MsgUnknownType)
    ELSE IF c.records # <<>>
    THEN LogArgs(c.path, c.file_type, "success", Len(c.records), NULL)
    ELSE LogArgs(c.path, c.file_type, "failed", 0, MsgNoData)

\* the except branch writing a fixed text instead of str(e)
ExceptLogArgsFixedText(c) == LogArgs(c.path, c.file_type, "failed", 0, MsgNoData)

\* the ledger write of the except branch
ExceptLogArgs(c) == LogArgs(c.path, c.file_type, "failed", 0, c.error)

\* process_file: the ledger write of the try block, then return
Log ==
    /\ pc = "log"
    /\ \E fault \in Faults(1) :
          /\ CallLogFileProcessing(TryLogArgs(cur), fault)
          /\ IF ret'.raised = NoError
             THEN pc' = "returned"
                  /\ cur' = [cur EXCEPT !.writes = @ + 1,
                                        !.result = (TryLogArgs(cur).status = "success")]
             ELSE IF ret'.raised = KeyboardInterrupt
             THEN pc' = "interrupted" /\ cur' = cur
             ELSE pc' = "except"
                  /\ cur' = [cur EXCEPT !.error = ret'.raised, !.failed = "log"]
    /\ UNCHANGED <<dataDir, run, runs, px>>

\* process_file: the except branch writes the ledger and returns False; an
\* exception raised here leaves process_file and process_all, and main exits
Except ==
    /\ pc = "except"
    /\ \E fault \in Faults(1) :
          /\ CallLogFileProcessing(ExceptLogArgs(cur), fault)
          /\ IF ret'.raised = NoError
             THEN pc' = "returned"
                  /\ cur' = [cur EXCEPT !.writes = @ + 1, !.result = FALSE]
             ELSE IF ret'.raised = KeyboardInterrupt
             THEN pc' = "interrupted" /\ cur' = cur
             ELSE pc' = "crashed" /\ cur' = cur
    /\ UNCHANGED <<dataDir, run, runs, px>>

\* process_all after process_file has returned: archive the file when asked
\* and the file succeeded (the move can fail, which is only logged), then go
\* on with the next file or return
Advance ==
    /\ pc = "returned"
    /\ \E moved \in BOOLEAN :
          /\ moved => cur.result /\ run.archive
          /\ dataDir' = IF moved THEN dataDir \ {cur.path} ELSE dataDir
    /\ IF run.i < Len(run.files)
       THEN /\ pc' = "parse"
            /\ run' = [run EXCEPT !.i = @ + 1, !.finished = Append(@, cur.path)]
            /\ cur' = [NoFile EXCEPT !.path = run.files[run.i + 1]]
       ELSE /\ pc' = "idle"
            /\ run' = [run EXCEPT !.finished = Append(@, cur.path)]
            /\ cur' = cur
    /\ UNCHANGED <<db, now, ret, lastInv, lastDel, lastLog, runs, px>>

\* KeyboardInterrupt between two storage calls: main returns 130, the
\* process exits
Interrupt ==
    /\ Running
    /\ pc' = "interrupted"
    /\ UNCHANGED <<db, now, ret, lastInv, lastDel, lastLog, dataDir, run, cur, runs, px>>

Next ==
    \/ StartRun
    \/ StartProcessFile
    \/ Parse
    \/ Insert
    \/ Log
    \/ Except
    \/ Advance
    \/ Interrupt

Spec == Init /\ [][Next]_vars

-----------------------------------------------------------------------------
(* Claims about the storage layer *)

\* table without the timestamp column the database fills in
Records(table, cols) == {Project(r, cols) : r \in table}

\* C1: after any sequence of upserts each table holds at most one row per
\* primary key, exactly for the keys upserted so far, and each row carries the
\* values of the record last upserted under its key (also within one batch).
C1_LastWriteWins ==
    /\ \A r, s \in db.inventory : InvKey(r) = InvKey(s) => r = s
    /\ \A r, s \in db.delivery : DelKey(r) = DelKey(s) => r = s
    /\ {InvKey(r) : r \in db.inventory} = DOMAIN lastInv
    /\ {DelKey(r) : r \in db.delivery} = DOMAIN lastDel
    /\ \A r \in db.inventory : Project(r, InvColumns) = lastInv[InvKey(r)]
    /\ \A r \in db.delivery : Project(r, DelColumns) = lastDel[DelKey(r)]

\* a committed batch that held one key twice with different values
C1_Witness ==
    /\ ret.op = "insert_inventory_records"
    /\ ret.raised = NoError
    /\ Len(ret.args) = 2
    /\ InvKey(ret.args[1]) = InvKey(ret.args[2])
    /\ ret.args[1] # ret.args[2]
    /\ \E r \in db.inventory : Project(r, InvColumns) = ret.args[2]

\* a committed upsert that repeats the committed upsert before it
RepeatedUpsert ==
    /\ ret'.op \in {"insert_inventory_records", "insert_delivery_records"}
    /\ ret'.again
    /\ ret'.raised = NoError

\* C2 as stated: upserting R a second time leaves the tables identical.
C2_SecondPassIdentical ==
    [][RepeatedUpsert => db' = db]_vars

\* C2 amended: the second upsert of R leaves every column the records supply
\* and the number of rows unchanged (created_at of R's rows is set anew).
C2_SecondPassSameRecords ==
    [][RepeatedUpsert =>
        /\ Records(db'.inventory, InvColumns) = Records(db.inventory, InvColumns)
        /\ Records(db'.delivery, DelColumns) = Records(db.delivery, DelColumns)
        /\ Cardinality(db'.inventory) = Cardinality(db.inventory)
        /\ Cardinality(db'.delivery) = Cardinality(db.delivery)
        /\ db'.ledger = db.ledger]_vars

\* a non-empty batch upserted twice in a row, the second time at a later time
C2_Witness ==
    /\ ret.op = "insert_inventory_records"
    /\ ret.again
    /\ ret.raised = NoError
    /\ ret.args # <<>>
    /\ \E r \in db.inventory : r.created_at > 0

LedgerFacts == {"status", "records_inserted", "error_message", "processed_at"}

\* C3: the ledger holds exactly one row for each path logged so far, carrying
\* the status, count, message and time of the last write for that path.
C3_LedgerLatest ==
    /\ {r.file_path : r \in db.ledger} = DOMAIN lastLog
    /\ \A p \in DOMAIN lastLog :
          /\ Cardinality({r \in db.ledger : r.file_path = p}) = 1
          /\ \A r \in db.ledger :
                r.file_path = p =>
                    Project(r, LedgerFacts) = Project(lastLog[p].row, LedgerFacts)

\* a path logged failed with a message and then logged success
C3_Witness ==
    \E p \in DOMAIN lastLog :
        /\ lastLog[p].replaced = "failed"
        /\ lastLog[p].row.status = "success"
        /\ \E r \in db.ledger : r.file_path = p /\ r.error_message = NULL

\* C4: is_file_processed(path) is true exactly when the last ledger write for
\* that very path recorded success.
C4_ProcessedIffSuccess ==
    /\ \A p \in PathSet :
          is_file_processed(db, p) <=>
              (p \in DOMAIN lastLog /\ lastLog[p].row.status = "success")
    /\ ret.op = "is_file_processed" =>
          (ret.value = 1 <=>
              (ret.args[1] \in DOMAIN lastLog
                  /\ lastLog[ret.args[1]].row.status = "success"))

\* a path logged success and later failed is reported as not processed, while
\* another path is processed
C4_Witness ==
    /\ ret.op = "is_file_processed"
    /\ ret.value = 0
    /\ ret.args[1] \in DOMAIN lastLog
    /\ lastLog[ret.args[1]].replaced = "success"
    /\ lastLog[ret.args[1]].row.status = "failed"
    /\ \E q \in PathSet : q # ret.args[1] /\ is_file_processed(db, q)

-----------------------------------------------------------------------------
(* Claims about the orchestrator *)

\* the elements of a sequence
Range(q) == {q[i] : i \in DOMAIN q}

\* the table process_file upserts the records of the running call into
FileTable ==
    IF cur.path # NULL /\ classify_file(cur.path) = "inventory"
    THEN db.inventory ELSE db.delivery

\* the ledger rows written for path p during the present run
WrittenNow(p) == {r \in db.ledger : r.file_path = p /\ r.processed_at = now}

\* C5: a process_all run without reprocess leaves out exactly the files whose
\* ledger row says success at scan time, never enters process_file for one of
\* them and leaves their ledger rows as they were; with reprocess the run
\* takes every matching file of the directory.
C5_SkipUnlessForced ==
    ~run.direct =>
        /\ ~run.reprocess =>
              /\ Range(run.files) = run.listed \ {r.file_path : r \in run.done}
              /\ cur.path \notin {r.file_path : r \in run.done}
              /\ run.done \subseteq db.ledger
        /\ run.reprocess => Range(run.files) = run.listed

\* a finished run without reprocess that left out one file and processed another
C5_Witness ==
    /\ ~run.direct
    /\ ~run.reprocess
    /\ run.done # {}
    /\ run.files # <<>>
    /\ pc = "idle"
    /\ run.finished = run.files

StorageCall ==
    /\ pc \in {"insert", "log", "except"}
    /\ pc' # pc
    /\ ~(pc' = "interrupted" /\ ret' = ret)

\* every record of the committed batch ret.args is stored in table; a key
\* given twice carries the values of its last record
WholeBatch(call, table, tbl, cols) ==
    \A i \in DOMAIN call.args :
        \E row \in table :
            /\ KeyOf(tbl, row) = KeyOf(tbl, call.args[i])
            /\ (\A j \in DOMAIN call.args :
                    j > i => KeyOf(tbl, call.args[j]) # KeyOf(tbl, call.args[i]))
                => Project(row, cols) = call.args[i]

\* C7: a storage call that fails leaves all three tables as they were and
\* raises its error to the caller; one that does not fail commits its whole
\* batch; the tables change in no other way.
C7_Atomic ==
    [][/\ db' # db => StorageCall /\ ret'.raised = NoError
       /\ StorageCall /\ ret'.raised # NoError =>
              /\ db' = db
              /\ pc' \in {"except", "crashed", "interrupted"}
              /\ pc' = "except" => cur'.error = ret'.raised
              /\ pc' = "interrupted" <=> ret'.raised = KeyboardInterrupt
       /\ StorageCall /\ ret'.raised = NoError =>
              CASE ret'.op = "insert_inventory_records" ->
                      WholeBatch(ret', db'.inventory, "inventory", InvColumns)
                [] ret'.op = "insert_delivery_records" ->
                      WholeBatch(ret', db'.delivery, "delivery", DelColumns)
                [] ret'.op = "log_file_processing" ->
                      WholeBatch(ret', db'.ledger, "ledger", LogColumns \ {"processed_at"})]_vars

\* an upsert of two records that raised
C7_Witness ==
    /\ pc = "except"
    /\ cur.failed = "insert"
    /\ Len(cur.records) = 2
    /\ ret.op = "insert_inventory_records"
    /\ ret.raised = OperationalError

\* C8: when the upsert of a file's records raised, none of the records of
\* this attempt is stored, and the ledger entry the call writes for the path
\* is failed with the error text as its message.
C8_FailedUpsert ==
    cur.failed = "insert" =>
        /\ ~cur.inserted
        /\ \A row \in FileTable : row.created_at # now
        /\ pc = "returned" =>
              /\ WrittenNow(cur.path) # {}
              /\ \A r \in db.ledger :
                    r.file_path = cur.path =>
                        /\ r.status = "failed"
                        /\ r.error_message = cur.error
                        /\ r.error_message \in {OperationalError, IntegrityError}

\* process_file returned after a failed upsert
C8_Witness ==
    /\ pc = "returned"
    /\ cur.failed = "insert"
    /\ cur.records # <<>>
    /\ \E r \in db.ledger : r.file_path = cur.path /\ r.error_message = OperationalError

\* the records of the running call are all stored, as written by this run (a
\* key extracted twice with the values of its last record)
AttemptCommitted ==
    \A i \in DOMAIN cur.records :
        \E row \in FileTable :
            /\ row.created_at = now
            /\ KeyOf(cur.file_type, row) = KeyOf(cur.file_type, cur.records[i])
            /\ (\A j \in DOMAIN cur.records :
                    j > i => KeyOf(cur.file_type, cur.records[j])
                                # KeyOf(cur.file_type, cur.records[i]))
                => Project(row, DOMAIN cur.records[i]) = cur.records[i]

\* C9 as stated: after an interrupt the ledger agrees with the store for the
\* file of the interrupted call: a success entry only with the records of the
\* attempt committed, and no records of the attempt committed without the
\* ledger entry of the attempt.
C9_LedgerAgreesWithStore ==
    pc = "interrupted" =>
        /\ (\E r \in WrittenNow(cur.path) : r.status = "success") => AttemptCommitted
        /\ cur.inserted => WrittenNow(cur.path) # {}

\* C9 amended: after an interrupt each storage operation of the call is
\* committed as a whole or not at all, and a success entry exists only with
\* the records of the attempt committed; the records can be committed while
\* the ledger has no entry of the attempt.
C9_EachOperationWhole ==
    pc = "interrupted" =>
        /\ (\E r \in WrittenNow(cur.path) : r.status = "success") => AttemptCommitted
        /\ cur.inserted => AttemptCommitted
        /\ ~cur.inserted /\ cur.path # NULL => \A row \in FileTable : row.created_at # now
        /\ Cardinality(WrittenNow(cur.path)) = cur.writes

\* interrupted between the upsert and the ledger write
C9_Witness ==
    /\ pc = "interrupted"
    /\ cur.inserted
    /\ cur.writes = 0

\* C10: the files of a run are in ascending path order without repetition;
\* process_file is entered for them one after another in that order, each
\* one's ledger write committed before the next one is entered, and no write
\* made for a file not yet entered.
C10_SortedSequential ==
    /\ ~run.direct =>
          \A i, j \in DOMAIN run.files : i < j => Rank(run.files[i]) < Rank(run.files[j])
    /\ run.files # <<>> =>
          LET n == IF pc = "idle" THEN Len(run.files) ELSE run.i - 1
          IN  /\ run.finished = SubSeq(run.files, 1, n)
              /\ pc # "idle" => cur.path = run.files[run.i]
              /\ \A k \in 1..n : WrittenNow(run.files[k]) # {}
              /\ \A k \in (n + 2)..Len(run.files) : WrittenNow(run.files[k]) = {}

\* the second of two files is entered after the first has been written
C10_Witness ==
    /\ ~run.direct
    /\ Len(run.files) = 2
    /\ run.i = 2
    /\ pc = "parse"
    /\ WrittenNow(run.files[1]) # {}

\* the rows of the present run in the table the records of path p go to
StoredNow(p) ==
    {row \in (IF classify_file(p) = "inventory" THEN db.inventory ELSE db.delivery) :
        row.created_at = now}

\* C11: a file whose extractor body raised is handed to process_file as an
\* empty list (the exception never reaches process_file); once process_file
\* has returned for it, its ledger row of this run says failed with no
\* record inserted and none of its records is stored; the run does not end
\* on it: only a storage error ends a run early, and a run that ends
\* normally has processed every file of its list, each with a ledger row.
C11_MalformedFileConfined ==
    /\ cur.failed # "parse"
    /\ cur.path \in run.malformed /\ pc # "parse" => cur.records = <<>>
    /\ \A f \in run.malformed :
          /\ StoredNow(f) = {}
          /\ (f \in Range(run.finished) \/ (f = cur.path /\ pc = "returned")) =>
                /\ WrittenNow(f) # {}
                /\ \A r \in WrittenNow(f) : r.status = "failed" /\ r.records_inserted = 0
    /\ pc = "crashed" => cur.failed \in {"insert", "log"}
    /\ (pc = "idle" /\ run.files # <<>>) =>
          /\ run.finished = run.files
          /\ \A k \in DOMAIN run.files : WrittenNow(run.files[k]) # {}

\* a finished run whose first file was malformed and whose second file was
\* stored with a success entry
C11_Witness ==
    /\ pc = "idle"
    /\ Len(run.files) = 2
    /\ run.files[1] \in run.malformed
    /\ run.files[2] \notin run.malformed
    /\ \E r \in WrittenNow(run.files[1]) : r.status = "failed" /\ r.error_message = MsgNoData
    /\ \E r \in WrittenNow(run.files[2]) : r.status = "success"
    /\ StoredNow(run.files[2]) # {}

\* C12 as stated: a storage error raised by the upsert of a file's records
\* leaves process_file as an exception (process_file returns no value for
\* that file and the run ends on it).
C12_StorageErrorPropagates ==
    cur.failed = "insert" => pc \in {"except", "crashed", "interrupted"}

\* the upsert of the first of two files raised, process_file returned False
\* for it, and the run went on to finish the second file
C12_Witness ==
    /\ pc = "idle"
    /\ Len(run.files) = 2
    /\ run.finished = run.files
    /\ \E r \in WrittenNow(run.files[1]) :
          r.status = "failed" /\ r.error_message = OperationalError
    /\ \E r \in WrittenNow(run.files[2]) : r.status = "success"

-----------------------------------------------------------------------------
(* BaseParser.clean_numeric_string; text is a sequence of characters *)

\* the longest text of the enumerated inputs
MaxLen == 3

\* the ETL is not running and the database is empty
NoEtl ==
    /\ db = EmptyDb
    /\ now = 0
    /\ ret = NoCall
    /\ lastInv = EmptyMap
    /\ lastDel = EmptyMap
    /\ lastLog = EmptyMap
    /\ dataDir = PathSet
    /\ pc = "idle"
    /\ run = NoRun
    /\ cur = NoFile
    /\ runs = 0

\* a cell value: None / NaN, a str, or a number (int or float)
NoneCell == [type |-> "none", s |-> <<>>, v |-> <<0, 0>>]
StrCell(s) == [type |-> "str", s |-> s, v |-> <<0, 0>>]
NumCell(m, e) == [type |-> "num", s |-> <<>>, v |-> <<m, e>>]

\* Optional[float]: None, a finite float m * 10^e (m not a multiple of 10, or
\* m = e = 0), an infinity (m = +1 / -1), NaN; ValueError: float() raised
Absent == [kind |-> "absent", m |-> 0, e |-> 0]
Inf(sign) == [kind |-> "inf", m |-> sign, e |-> 0]
NaN == [kind |-> "nan", m |-> 0, e |-> 0]
ValueError == [kind |-> "ValueError", m |-> 0, e |-> 0]

RECURSIVE Float(_, _)
Float(m, e) ==
    IF m = 0 THEN [kind |-> "float", m |-> 0, e |-> 0]
    ELSE IF m % 10 = 0 THEN Float(m \div 10, e + 1)
    ELSE [kind |-> "float", m |-> m, e |-> e]

DigitChars == {"0", "1", "2", "3", "4", "5", "6", "7", "8", "9"}

DigitVal(c) ==
    CASE c = "0" -> 0 [] c = "1" -> 1 [] c = "2" -> 2 [] c = "3" -> 3 [] c = "4" -> 4
      [] c = "5" -> 5 [] c = "6" -> 6 [] c = "7" -> 7 [] c = "8" -> 8 [] c = "9" -> 9

\* the letters, lower case and upper case
LowerLetters ==
    <<"a", "b", "c", "d", "e", "f", "g", "h", "i", "j", "k", "l", "m", "n",
    "o", "p", "q", "r", "s", "t", "u", "v", "w", "x", "y", "z">>

UpperLetters ==
    <<"A", "B", "C", "D", "E", "F", "G", "H", "I", "J", "K", "L", "M", "N",
    "O", "P", "Q", "R", "S", "T", "U", "V", "W", "X", "Y", "Z">>

Letters == {LowerLetters[i] : i \in 1..26} \cup {UpperLetters[i] : i \in 1..26}

\* str.upper() and str.lower(), character by character
UpperChar(c) ==
    IF \E i \in 1..26 : LowerLetters[i] = c
    THEN UpperLetters[CHOOSE i \in 1..26 : LowerLetters[i] = c] ELSE c

LowerChar(c) ==
    IF \E i \in 1..26 : UpperLetters[i] = c
    THEN LowerLetters[CHOOSE i \in 1..26 : UpperLetters[i] = c] ELSE c

Upper(s) == [i \in 1..Len(s) |-> UpperChar(s[i])]

Lower(s) == [i \in 1..Len(s) |-> LowerChar(s[i])]

\* str.strip(): leading and trailing blanks removed
RECURSIVE Strip(_)
Strip(s) ==
    IF s = <<>> THEN s
    ELSE IF Head(s) = " " THEN Strip(Tail(s))
    ELSE IF s[Len(s)] = " " THEN Strip(SubSeq(s, 1, Len(s) - 1))
    ELSE s

\* str.replace(c, ''): every occurrence of the character removed
Remove(s, c) == SelectSeq(s, LAMBDA x : x # c)

\* the place of the first character of s that is in chars, 0 when there is none
IndexOf(s, chars) ==
    IF \E i \in 1..Len(s) : s[i] \in chars
    THEN CHOOSE i \in 1..Len(s) : s[i] \in chars /\ \A j \in 1..(i - 1) : s[j] \notin chars
    ELSE 0

\* digits, with single underscores between digits only
DigitRun(s) ==
    /\ s # <<>>
    /\ \A i \in 1..Len(s) : s[i] \in DigitChars \cup {"_"}
    /\ s[1] # "_" /\ s[Len(s)] # "_"
    /\ \A i \in 1..(Len(s) - 1) : ~(s[i] = "_" /\ s[i + 1] = "_")

\* the value of a digit run
RECURSIVE IntOf(_, _)
IntOf(s, acc) ==
    IF s = <<>> THEN acc
    ELSE IF Head(s) = "_" THEN IntOf(Tail(s), acc)
    ELSE IntOf(Tail(s), 10 * acc + DigitVal(Head(s)))

\* s without a leading sign, and the sign
Unsigned(s) == IF s # <<>> /\ s[1] \in {"+", "-"} THEN Tail(s) ELSE s
SignOf(s) == IF s # <<>> /\ s[1] = "-" THEN -1 ELSE 1

\* float(s) of a str without surrounding blanks: [sign] digits [. digits]
\* [e [sign] digits], or [sign] inf / infinity / nan in any case; anything
\* else raises ValueError
ParseFloat(s) ==
    LET body == Lower(Unsigned(s))
        ie == IndexOf(body, {"e"})
        mant == IF ie = 0 THEN body ELSE SubSeq(body, 1, ie - 1)
        expo == IF ie = 0 THEN <<>> ELSE SubSeq(body, ie + 1, Len(body))
        ip == IndexOf(mant, {"."})
        int == IF ip = 0 THEN mant ELSE SubSeq(mant, 1, ip - 1)
        frac == IF ip = 0 THEN <<>> ELSE SubSeq(mant, ip + 1, Len(mant))
        fracDigits == Remove(frac, "_")
    IN  IF body \in {<<"i", "n", "f">>, <<"i", "n", "f", "i", "n", "i", "t", "y">>}
        THEN Inf(SignOf(s))
        ELSE IF body = <<"n", "a", "n">> THEN NaN
        ELSE IF /\ (int = <<>> \/ DigitRun(int))
                /\ (frac = <<>> \/ DigitRun(frac))
                /\ ~(int = <<>> /\ frac = <<>>)
                /\ (ie # 0 => DigitRun(Unsigned(expo)))
        THEN Float(SignOf(s) * IntOf(int \o fracDigits, 0),
                   SignOf(expo) * IntOf(Unsigned(expo), 0) - Len(fracDigits))
        ELSE ValueError

\* the values line 60 treats as absent
SpecialValues ==
    { <<"N", "/", "A">>, <<"N", "A">>, <<"-">>, <<"N", "U", "L", "L">>,
      <<"N", "O", "N", "E">> }

\* clean_numeric_string that leaves the commas in
CleanNumericKeepingCommas(value) ==
    IF value.type = "none" \/ (value.type = "str" /\ value.s = <<>>) THEN Absent
    ELSE IF value.type = "num" THEN Float(value.v[1], value.v[2])
    ELSE LET stripped == Strip(value.s)
         IN  IF Upper(stripped) \in SpecialValues THEN Absent
             ELSE LET parsed == ParseFloat(Remove(stripped, " "))
                  IN  IF parsed = ValueError THEN Absent ELSE parsed

clean_numeric_string(value) ==
    IF value.type = "none" \/ (value.type = "str" /\ value.s = <<>>) THEN Absent
    ELSE IF value.type = "num" THEN Float(value.v[1], value.v[2])
    ELSE LET stripped == Strip(value.s)
         IN  IF Upper(stripped) \in SpecialValues THEN Absent
             ELSE LET value_str == Remove(Remove(stripped, ","), " ")
                      parsed == ParseFloat(value_str)
                  IN  IF parsed = ValueError THEN Absent ELSE parsed

\* the characters of the enumerated texts
NumericChars == {"1", "2", ",", ".", " ", "-", "N", "A", "a", "/"}

\* every text over chars of length at most n
Texts(chars, n) == UNION {[1..k -> chars] : k \in 0..n}

\* longer texts
NumericSamples ==
    { <<"1", ",", "2", "3", "4", ".", "5", "6">>, <<"1", ",", "2", "3", "4">>,
      <<" ", "1", " ", "0", "0", "0", " ">>,
      <<"N", "U", "L", "L">>, <<"n", "u", "l", "l">>, <<"N", "o", "n", "e">>,
      <<" ", "n", "/", "a", " ">>, <<"N", " ", "/", " ", "A">>,
      <<"i", "n", "f">>, <<"-", "I", "n", "f", "i", "n", "i", "t", "y">>,
      <<"1", "e", "2">>, <<"1", "_", "0">>, <<"+", "5">>, <<"1", "2", "a", "b">>,
      <<"1", ".", "2", ".", "3">>, <<"-", "-", "1">> }

NumericInputs ==
    {NoneCell, NumCell(0, 0), NumCell(15, 2), NumCell(-25, -1)}
    \cup {StrCell(s) : s \in Texts(NumericChars, MaxLen) \cup NumericSamples}

InitNumeric ==
    /\ NoEtl
    /\ px \in {[op |-> "clean_numeric_string", pc |-> "call", value |-> v,
                result |-> Absent] : v \in NumericInputs}

CleanNumeric ==
    /\ px.op = "clean_numeric_string"
    /\ px.pc = "call"
    /\ px' = [px EXCEPT !.pc = "done", !.result = clean_numeric_string(px.value)]
    /\ UNCHANGED <<storeVars, dataDir, pc, run, cur, runs>>

SpecNumeric == InitNumeric /\ [][CleanNumeric]_vars

\* the text of a str cell as line 64 leaves it: trimmed, commas and blanks removed
Remainder(value) == Remove(Remove(Strip(value.s), ","), " ")

\* the input is missing, blank, or one of the special values
IsAbsentInput(value) ==
    \/ value.type = "none"
    \/ value.type = "str" /\ Strip(value.s) = <<>>
    \/ value.type = "str" /\ Upper(Strip(value.s)) \in SpecialValues

\* C18 as stated: missing, blank and special inputs give absent; any other
\* text gives the number its remainder (commas and blanks removed) denotes,
\* and absent when the remainder is not a number; the call never raises.
C18_CleanNumeric ==
    px.op = "clean_numeric_string" /\ px.pc = "done" =>
        /\ px.result.kind \in {"absent", "float"}
        /\ IsAbsentInput(px.value) => px.result = Absent
        /\ px.value.type = "str" /\ ~IsAbsentInput(px.value) =>
              px.result = IF ParseFloat(Remainder(px.value)).kind = "float"
                          THEN ParseFloat(Remainder(px.value))
                          ELSE Absent
        /\ px.value = StrCell(<<"1", ",", "2", "3", "4", ".", "5", "6">>) =>
              px.result = [kind |-> "float", m |-> 123456, e |-> -2]

\* C18 amended: as stated, except that a remainder spelling nan, inf or
\* infinity (any case, optional sign) gives NaN or an infinity, not absent.
C18_CleanNumericFloat ==
    px.op = "clean_numeric_string" /\ px.pc = "done" =>
        /\ px.result.kind \in {"absent", "float", "inf", "nan"}
        /\ IsAbsentInput(px.value) => px.result = Absent
        /\ px.value.type = "num" => px.result.kind = "float"
        /\ px.value.type = "str" /\ ~IsAbsentInput(px.value) =>
              /\ px.result.kind \in {"inf", "nan"} <=>
                    Lower(Unsigned(Remainder(px.value))) \in
                        {<<"n", "a", "n">>, <<"i", "n", "f">>,
                         <<"i", "n", "f", "i", "n", "i", "t", "y">>}
              /\ px.result.kind = "float" => px.result = ParseFloat(Remainder(px.value))
              /\ px.result.kind = "absent" => ParseFloat(Remainder(px.value)) = ValueError
        /\ px.value = StrCell(<<"1", ",", "2", "3", "4", ".", "5", "6">>) =>
              px.result = [kind |-> "float", m |-> 123456, e |-> -2]
        /\ px.value = StrCell(<<" ", "1", " ", "0", "0", "0", " ">>) =>
              px.result = [kind |-> "float", m |-> 1, e |-> 3]

\* a text spelling nan was cleaned to NaN, and not to absent
C18_Witness ==
    /\ px.op = "clean_numeric_string"
    /\ px.pc = "done"
    /\ px.value = StrCell(<<"N", "a", "N">>)
    /\ px.result = NaN

-----------------------------------------------------------------------------
(* BaseParser.parse_date_string *)

\* calendar.month_name, which %B matches; %b matches the first three letters
MonthNames ==
    << <<"J", "a", "n", "u", "a", "r", "y">>,
       <<"F", "e", "b", "r", "u", "a", "r", "y">>,
       <<"M", "a", "r", "c", "h">>,
       <<"A", "p", "r", "i", "l">>,
       <<"M", "a", "y">>,
       <<"J", "u", "n", "e">>,
       <<"J", "u", "l", "y">>,
       <<"A", "u", "g", "u", "s", "t">>,
       <<"S", "e", "p", "t", "e", "m", "b", "e", "r">>,
       <<"O", "c", "t", "o", "b", "e", "r">>,
       <<"N", "o", "v", "e", "m", "b", "e", "r">>,
       <<"D", "e", "c", "e", "m", "b", "e", "r">> >>

\* the list with day/month/year tried before month/day/year
DateFormatsDayFirst ==
    << <<"%B", " ", "%d", ",", " ", "%Y">>,
       <<"%d", "/", "%m", "/", "%Y">>,
       <<"%Y", "-", "%m", "-", "%d">>,
       <<"%d", "-", "%b", "-", "%Y">>,
       <<"%m", "/", "%d", "/", "%Y">>,
       <<"%Y", "/", "%m", "/", "%d">> >>

\* the directives and literals of the six date_formats, in the order tried
date_formats ==
    << <<"%B", " ", "%d", ",", " ", "%Y">>,
       <<"%m", "/", "%d", "/", "%Y">>,
       <<"%Y", "-", "%m", "-", "%d">>,
       <<"%d", "-", "%b", "-", "%Y">>,
       <<"%d", "/", "%m", "/", "%Y">>,
       <<"%Y", "/", "%m", "/", "%d">> >>

\* the number of leading characters of s that are in chars
LeadLen(s, chars) ==
    IF \A i \in 1..Len(s) : s[i] \in chars THEN Len(s)
    ELSE (CHOOSE i \in 1..Len(s) : s[i] \notin chars /\ \A j \in 1..(i - 1) : s[j] \in chars) - 1

DaysIn(y, m) ==
    IF m = 2
    THEN (IF y % 4 = 0 /\ (y % 100 # 0 \/ y % 400 = 0) THEN 29 ELSE 28)
    ELSE IF m \in {4, 6, 9, 11} THEN 30 ELSE 31

NoMatch == [ok |-> FALSE, y |-> 0, m |-> 0, d |-> 0]

\* datetime.strptime(s, fmt) from directive k on: a number directive takes
\* the digits in front (one or two for %m and %d, four for %Y), a name
\* directive the letters in front, a blank one or more blanks, any other
\* literal itself; nothing may remain, and the date must exist
RECURSIVE StrptimeFrom(_, _, _, _)
StrptimeFrom(s, fmt, k, acc) ==
    IF k > Len(fmt)
    THEN IF s = <<>> /\ acc.y >= 1 /\ acc.m \in 1..12 /\ acc.d \in 1..DaysIn(acc.y, acc.m)
         THEN [acc EXCEPT !.ok = TRUE] ELSE NoMatch
    ELSE LET f == fmt[k]
             n == LeadLen(s, IF f \in {"%m", "%d", "%Y"} THEN DigitChars
                             ELSE IF f \in {"%B", "%b"} THEN Letters
                             ELSE IF f = " " THEN {" "} ELSE {f})
             word == Lower(SubSeq(s, 1, n))
             v == IntOf(word, 0)
             rest == SubSeq(s, n + 1, Len(s))
             named == {i \in 1..12 :
                          word = Lower(IF f = "%b" THEN SubSeq(MonthNames[i], 1, 3)
                                       ELSE MonthNames[i])}
         IN  CASE f = "%Y" ->
                    IF n = 4 THEN StrptimeFrom(rest, fmt, k + 1, [acc EXCEPT !.y = v])
                    ELSE NoMatch
               [] f = "%m" ->
                    IF n \in 1..2 /\ v \in 1..12
                    THEN StrptimeFrom(rest, fmt, k + 1, [acc EXCEPT !.m = v])
                    ELSE NoMatch
               [] f = "%d" ->
                    IF n \in 1..2 /\ v \in 1..31
                    THEN StrptimeFrom(rest, fmt, k + 1, [acc EXCEPT !.d = v])
                    ELSE NoMatch
               [] f \in {"%B", "%b"} ->
                    IF named # {}
                    THEN StrptimeFrom(rest, fmt, k + 1,
                                      [acc EXCEPT !.m = CHOOSE i \in named : TRUE])
                    ELSE NoMatch
               [] f = " " ->
                    IF n >= 1 THEN StrptimeFrom(rest, fmt, k + 1, acc) ELSE NoMatch
               [] OTHER ->
                    IF n >= 1 THEN StrptimeFrom(SubSeq(s, 2, Len(s)), fmt, k + 1, acc)
                    ELSE NoMatch

Strptime(s, fmt) == StrptimeFrom(s, fmt, 1, NoMatch)

\* the decimal digits of v, zero-padded to width
RECURSIVE Pad(_, _)
Pad(v, width) ==
    IF width = 0 THEN <<>>
    ELSE Pad(v \div 10, width - 1)
         \o <<CHOOSE c \in DigitChars : DigitVal(c) = v % 10>>

\* strftime("%Y-%m-%d")
Strftime(t) == Pad(t.y, 4) \o <<"-">> \o Pad(t.m, 2) \o <<"-">> \o Pad(t.d, 2)

\* Optional[str]: None
NoDate == <<>>

\* the for loop of parse_date_string from format k on
RECURSIVE TryFormats(_, _, _)
TryFormats(s, formats, k) ==
    IF k > Len(formats) THEN NoDate
    ELSE LET parsed == Strptime(s, formats[k])
         IN  IF parsed.ok THEN Strftime(parsed)
             ELSE TryFormats(s, formats, k + 1)

parse_date_string(date_str) ==
    IF date_str.type = "none" \/ date_str.s = <<>> THEN NoDate
    ELSE TryFormats(Strip(date_str.s), date_formats, 1)

\* the numbers the enumerated date texts are made of
DateNumbers ==
    { <<"0", "0">>, <<"0", "1">>, <<"2">>, <<"0", "2">>, <<"1", "2">>, <<"1", "3">>,
      <<"2", "9">>, <<"3", "0">>, <<"3", "1">>, <<"3", "2">>,
      <<"2", "0", "2", "3">>, <<"2", "0", "2", "4">> }

\* further date texts: the month-name formats, blanks, trailing text
DateSamples ==
    { MonthNames[1] \o <<" ", "1", "3", ",", " ", "2", "0", "2", "4">>,
      Lower(MonthNames[1]) \o <<" ", "1", "3", ",", " ", " ", "2", "0", "2", "4">>,
      MonthNames[2] \o <<" ", "2", "9", ",", " ", "2", "0", "2", "3">>,
      MonthNames[2] \o <<" ", "2", "9", ",", " ", "2", "0", "2", "4">>,
      SubSeq(MonthNames[1], 1, 3) \o <<" ", "1", "3", ",", " ", "2", "0", "2", "4">>,
      MonthNames[5] \o <<" ", "5", ",", " ", "2", "0", "2", "4">>,
      <<"1", "3", "-">> \o SubSeq(MonthNames[1], 1, 3) \o <<"-", "2", "0", "2", "4">>,
      <<"1", "3", "-">> \o MonthNames[1] \o <<"-", "2", "0", "2", "4">>,
      <<"5", "-">> \o Upper(MonthNames[5]) \o <<"-", "2", "0", "2", "4">>,
      <<" ", "0", "1", "/", "1", "3", "/", "2", "0", "2", "4", " ">>,
      <<"0", "1", "/", "1", "3", "/", "2", "0", "2", "4", " ", "x">>,
      <<"2", "0", "2", "4", "-", "0", "1", "-", "1", "3", " ", "0", "0", ":", "0", "0">>,
      <<" ">> }

DateInputs ==
    {NoneCell}
    \cup {StrCell(s) : s \in DateSamples}
    \cup {StrCell(a \o <<s1>> \o b \o <<s2>> \o c) :
            a \in DateNumbers, b \in DateNumbers, c \in DateNumbers,
            s1 \in {"/", "-"}, s2 \in {"/", "-"}}

InitDate ==
    /\ NoEtl
    /\ px \in {[op |-> "parse_date_string", pc |-> "call", value |-> v,
                result |-> NoDate] : v \in DateInputs}

ParseDate ==
    /\ px.op = "parse_date_string"
    /\ px.pc = "call"
    /\ px' = [px EXCEPT !.pc = "done", !.result = parse_date_string(px.value)]
    /\ UNCHANGED <<storeVars, dataDir, pc, run, cur, runs>>

SpecDate == InitDate /\ [][ParseDate]_vars

\* the formats that parse the text (places in the list of six)
Parsing(value) ==
    IF value.type = "none" THEN {}
    ELSE {k \in 1..6 : Strptime(Strip(value.s), date_formats[k]).ok}

\* YYYY-MM-DD
Iso(y, m, d) == Pad(y, 4) \o <<"-">> \o Pad(m, 2) \o <<"-">> \o Pad(d, 2)

\* C19: the result is the YYYY-MM-DD rendering under the first of the six
\* formats, in the order of the list, that parses the text, and absent when
\* the input is absent or no format parses it; a slash date a/b/yyyy with
\* a <= 12 is month a, day b, and is day a, month b only when a > 12 and
\* b <= 12; "01/13/2024" gives 2024-01-13.
C19_FirstFormatWins ==
    px.op = "parse_date_string" /\ px.pc = "done" =>
        /\ Parsing(px.value) = {} <=> px.result = NoDate
        /\ Parsing(px.value) # {} =>
              LET first == CHOOSE k \in Parsing(px.value) :
                               \A j \in Parsing(px.value) : k <= j
              IN  px.result = Strftime(Strptime(Strip(px.value.s), date_formats[first]))
        /\ \A ta, tb \in {t \in DateNumbers : Len(t) <= 2} : \A y \in {2023, 2024} :
              LET a == IntOf(ta, 0)
                  b == IntOf(tb, 0)
              IN  px.value = StrCell(ta \o <<"/">> \o tb \o <<"/">> \o Pad(y, 4)) =>
                      /\ a \in 1..12 /\ b \in 1..DaysIn(y, a) => px.result = Iso(y, a, b)
                      /\ a \in 1..12 /\ b \notin 1..DaysIn(y, a) => px.result = NoDate
                      /\ a > 12 /\ b \in 1..12 /\ a \in 1..DaysIn(y, b) =>
                            px.result = Iso(y, b, a)
                      /\ px.result = Iso(y, b, a) /\ a # b => a > 12 /\ b <= 12
        /\ px.value = StrCell(<<"0", "1", "/", "1", "3", "/", "2", "0", "2", "4">>) =>
              px.result = <<"2", "0", "2", "4", "-", "0", "1", "-", "1", "3">>

\* a slash date both slash formats parse was read month first
C19_Witness ==
    /\ px.op = "parse_date_string"
    /\ px.pc = "done"
    /\ px.value = StrCell(<<"0", "2", "/", "1", "2", "/", "2", "0", "2", "4">>)
    /\ {2, 5} \subseteq Parsing(px.value)
    /\ px.result = <<"2", "0", "2", "4", "-", "0", "2", "-", "1", "2">>

-----------------------------------------------------------------------------
(* DeliveryNoticeParser: parse_file, _parse_page, _extract_contract_from_line *)

\* the stop offset of the lookahead range: range(i + 1, min(i + 20, len(lines)))
LookaheadStop == 20

\* the longest page of the enumerated pages
MaxLines == 3

\* Optional[int]: None
NoInt == -1

\* a line of page text, by what the scan reads of it: starts, the prefix it
\* starts with after strip() ("CONTRACT:", "TOTAL:", "EXCHANGE:" or none of
\* them); words, the words after "CONTRACT:"; intent, the text that follows
\* "INTENT DATE:" and blanks (no such text: NoneCell); mtd, the line contains
\* "MONTH TO DATE:"; numbers, the digit runs of the line (re.findall(r'\d+'))
Line(starts, words, intent, mtd, numbers) ==
    [starts |-> starts, words |-> words, intent |-> intent, mtd |-> mtd,
     numbers |-> numbers]

W_COMEX == <<"C", "O", "M", "E", "X">>
W_FUTURES == <<"F", "U", "T", "U", "R", "E", "S">>
W_GOLD == <<"G", "O", "L", "D">>
W_ALUMINUM == <<"A", "L", "U", "M", "I", "N", "U", "M">>
W_2026 == <<"2", "0", "2", "6">>
W_100 == <<"1", "0", "0">>

\* "CONTRACT: JANUARY 2026 COMEX 100 GOLD FUTURES"
ContractJan ==
    Line("CONTRACT:", <<Upper(MonthNames[1]), W_2026, W_COMEX, W_100, W_GOLD, W_FUTURES>>,
         NoneCell, FALSE, <<2026, 100>>)
\* "CONTRACT: FEBRUARY 2026 ALUMINUM FUTURES"
ContractFeb ==
    Line("CONTRACT:", <<Upper(MonthNames[2]), W_2026, W_ALUMINUM, W_FUTURES>>,
         NoneCell, FALSE, <<2026>>)
\* "CONTRACT: March 2026 GOLD FUTURES": neither pattern matches
ContractBad ==
    Line("CONTRACT:", <<MonthNames[3], W_2026, W_GOLD, W_FUTURES>>, NoneCell, FALSE, <<2026>>)
\* "CONTRACT: MAY 2026 COMEX FUTURES": only the second pattern matches
ContractComexOnly ==
    Line("CONTRACT:", <<Upper(MonthNames[5]), W_2026, W_COMEX, W_FUTURES>>,
         NoneCell, FALSE, <<2026>>)
\* "SETTLEMENT: 1.00, INTENT DATE: 01/12/2026, DELIVERY DATE: 01/14/2026"
IntentOk ==
    Line("", <<>>, StrCell(<<"0", "1", "/", "1", "2", "/", "2", "0", "2", "6", ",", " ", "D", "E", "L", "I", "V", "E", "R", "Y", " ", "D", "A", "T", "E", ":", " ", "0", "1", "/", "1", "4", "/", "2", "0", "2", "6">>),
         FALSE, <<1, 0, 1, 12, 2026, 1, 14, 2026>>)
\* "INTENT DATE: 13/13/2026": the pattern matches, no format parses the date
IntentBad ==
    Line("", <<>>, StrCell(<<"1", "3", "/", "1", "3", "/", "2", "0", "2", "6">>), FALSE, <<13, 13, 2026>>)
\* "INTENT DATE: 1/12/2026": the pattern does not match
IntentShort ==
    Line("", <<>>, StrCell(<<"1", "/", "1", "2", "/", "2", "0", "2", "6">>), FALSE, <<1, 12, 2026>>)
\* "TOTAL: 7 15", "TOTAL: 9", "TOTAL:"
Total2 == Line("TOTAL:", <<>>, NoneCell, FALSE, <<7, 15>>)
Total1 == Line("TOTAL:", <<>>, NoneCell, FALSE, <<9>>)
Total0 == Line("TOTAL:", <<>>, NoneCell, FALSE, <<>>)
\* "MONTH TO DATE: 134", "TOTAL: 0 MONTH TO DATE: 0"
MonthToDate == Line("", <<>>, NoneCell, TRUE, <<134>>)
TotalAndMonthToDate == Line("TOTAL:", <<>>, NoneCell, TRUE, <<0, 0>>)
\* "EXCHANGE: COMEX", any other line
Exchange == Line("EXCHANGE:", <<>>, NoneCell, FALSE, <<>>)
\* "EXCHANGE: COMEX MONTH TO DATE: 50"
ExchangeMonthToDate == Line("EXCHANGE:", <<>>, NoneCell, TRUE, <<50>>)
\* "CONTRACT: FEBRUARY 2026 ALUMINUM FUTURES INTENT DATE: 01/12/2026"
ContractWithIntent ==
    Line("CONTRACT:",
         ContractFeb.words \o <<<<"I", "N", "T", "E", "N", "T">>, <<"D", "A", "T", "E", ":">>,
                                <<"0", "1", "/", "1", "2", "/", "2", "0", "2", "6">>>>,
         StrCell(<<"0", "1", "/", "1", "2", "/", "2", "0", "2", "6">>),
         FALSE, <<2026, 1, 12, 2026>>)
Other == Line("", <<>>, NoneCell, FALSE, <<>>)

\* [A-Z]+ and \d{4}
AllUpper(w) == w # <<>> /\ \A i \in 1..Len(w) : \E k \in 1..26 : UpperLetters[k] = w[i]
FourDigits(w) == Len(w) = 4 /\ \A i \in 1..4 : w[i] \in DigitChars

\* str.title() of a word of letters
Title(w) == <<UpperChar(w[1])>> \o Lower(Tail(w))

NoContract == [ok |-> FALSE, contract_month |-> <<>>, product |-> <<>>]

\* _extract_contract_from_line: month, year, COMEX, optional digits, product,
\* FUTURES; else month, year, product, FUTURES; else None
_extract_contract_from_line(line) ==
    LET w == line.words
        n == Len(w)
        head == n >= 2 /\ AllUpper(w[1]) /\ FourDigits(w[2])
        month == w[1] \o <<" ">> \o w[2]
    IN  IF head /\ n >= 6 /\ w[3] = W_COMEX /\ (\A i \in 1..Len(w[4]) : w[4][i] \in DigitChars)
              /\ AllUpper(w[5]) /\ w[6] = W_FUTURES
        THEN [ok |-> TRUE, contract_month |-> month, product |-> Title(w[5])]
        ELSE IF head /\ n >= 5 /\ w[3] = W_COMEX /\ AllUpper(w[4]) /\ w[5] = W_FUTURES
        THEN [ok |-> TRUE, contract_month |-> month, product |-> Title(w[4])]
        ELSE IF head /\ n >= 4 /\ AllUpper(w[3]) /\ w[4] = W_FUTURES
        THEN [ok |-> TRUE, contract_month |-> month, product |-> Title(w[3])]
        ELSE NoContract

\* the locals of one lookahead, as line 428-431 sets them; history: read,
\* the lines the loop body ran on
NoScan == [intent_date |-> NoDate, daily_issued |-> NoInt, daily_stopped |-> NoInt,
           cumulative |-> NoInt, read |-> {}]

\* re.search(r'INTENT DATE:\s*(\d{2}/\d{2}/\d{4})'): the text after the
\* marker begins with dd/dd/dddd
DateMatch(t) ==
    /\ Len(t) >= 10
    /\ t[3] = "/" /\ t[6] = "/"
    /\ \A i \in {1, 2, 4, 5, 7, 8, 9, 10} : t[i] \in DigitChars

\* the loop body taking the first integer of a TOTAL: line for stopped
ReadLineFirstAsStopped(acc, line) ==
    LET a1 == IF line.intent.type = "str" /\ DateMatch(line.intent.s)
              THEN [acc EXCEPT !.intent_date =
                                  parse_date_string(StrCell(SubSeq(line.intent.s, 1, 10)))]
              ELSE acc
        a2 == IF line.starts = "TOTAL:" /\ Len(line.numbers) >= 1
              THEN [a1 EXCEPT !.daily_issued = line.numbers[1],
                              !.daily_stopped = line.numbers[1]]
              ELSE a1
    IN  IF line.mtd /\ line.numbers # <<>>
        THEN [a2 EXCEPT !.cumulative = line.numbers[Len(line.numbers)]]
        ELSE a2

\* the body of the lookahead loop for one line, without the break
ReadLine(acc, line) ==
    LET a1 == IF line.intent.type = "str" /\ DateMatch(line.intent.s)
              THEN [acc EXCEPT !.intent_date =
                                  parse_date_string(StrCell(SubSeq(line.intent.s, 1, 10)))]
              ELSE acc
        a2 == IF line.starts = "TOTAL:" /\ Len(line.numbers) >= 2
              THEN [a1 EXCEPT !.daily_issued = line.numbers[1],
                              !.daily_stopped = line.numbers[2]]
              ELSE IF line.starts = "TOTAL:" /\ Len(line.numbers) = 1
              THEN [a1 EXCEPT !.daily_stopped = line.numbers[1]]
              ELSE a1
    IN  IF line.mtd /\ line.numbers # <<>>
        THEN [a2 EXCEPT !.cumulative = line.numbers[Len(line.numbers)]]
        ELSE a2

\* for j in range(i + 1, min(i + 20, len(lines))), with lines counted from 1:
\* the lines i + 1 .. min(i + 19, len); the loop breaks after reading a line
\* that starts with CONTRACT: or EXCHANGE:
\* the lookahead going on behind a CONTRACT: or EXCHANGE: line
RECURSIVE LookaheadWithoutBreak(_, _, _, _)
LookaheadWithoutBreak(lines, i, j, acc) ==
    IF j > i + LookaheadStop - 1 \/ j > Len(lines) THEN acc
    ELSE CHOOSE out \in {LookaheadWithoutBreak(lines, i, j + 1, read) :
                            read \in {[ReadLine(acc, lines[j]) EXCEPT !.read = @ \cup {j}]}} :
           TRUE

\* read: the locals after the pass for line j; bound as the one element of a
\* set, they are a value before the next pass starts
RECURSIVE Lookahead(_, _, _, _)
Lookahead(lines, i, j, acc) ==
    IF j > i + LookaheadStop - 1 \/ j > Len(lines) THEN acc
    ELSE CHOOSE out \in {IF lines[j].starts \in {"CONTRACT:", "EXCHANGE:"} THEN read
                         ELSE Lookahead(lines, i, j + 1, read) :
                            read \in {[ReadLine(acc, lines[j]) EXCEPT !.read = @ \cup {j}]}} :
           TRUE

\* if intent_date and (daily_stopped is not None or cumulative is not None)
Emits(acc) ==
    acc.intent_date # NoDate /\ (acc.daily_stopped # NoInt \/ acc.cumulative # NoInt)

\* the locals of the lookahead at line i, NoScan for a line that is no
\* matched CONTRACT line
Block(lines, i) ==
    IF lines[i].starts = "CONTRACT:" /\ _extract_contract_from_line(lines[i]).ok
    THEN Lookahead(lines, i, i + 1, NoScan)
    ELSE NoScan

\* the records the while loop appends at line i: none or one
ScanLine(lines, i, report_type, source_file) ==
    LET info == _extract_contract_from_line(lines[i])
        acc == Lookahead(lines, i, i + 1, NoScan)
    IN  IF lines[i].starts = "CONTRACT:" /\ info.ok /\ Emits(acc)
        THEN << [intent_date |-> acc.intent_date, product |-> info.product,
                 contract_month |-> info.contract_month,
                 daily_total |-> acc.daily_stopped, cumulative |-> acc.cumulative,
                 report_type |-> report_type, source_file |-> source_file] >>
        ELSE <<>>

\* the outer scan resuming behind the lines the lookahead went through
NextLineAfterBlock(lines, i) ==
    IF lines[i].starts = "CONTRACT:" /\ _extract_contract_from_line(lines[i]).ok
    THEN (IF i + LookaheadStop - 1 < Len(lines) THEN i + LookaheadStop - 1 ELSE Len(lines)) + 1
    ELSE i + 1

\* i += 1
NextLine(lines, i) == i + 1

\* the text of page k and of all the pages behind it
PageLinesToEnd(pages, k) ==
    IF k = Len(pages) THEN pages[k] ELSE pages[k] \o pages[k + 1]

\* page.extract_text().split('\n'): the lines of page k (no text: no line)
PageLines(pages, k) == pages[k]

\* the lines of the enumerated pages
PageAlphabet ==
    {ContractJan, ContractFeb, ContractBad, IntentOk, IntentBad, Total2, MonthToDate,
     Exchange, Other}

\* n lines of other text
Padding(n) == [i \in 1..n |-> Other]

\* longer pages: two intent dates in one block, figures at the end of the
\* lookahead range and behind it, a second block inside and outside the
\* range of a first one without intent date
PageSamples ==
    { <<ContractJan, IntentOk, Total2, MonthToDate>>,
      <<ContractJan, IntentOk, Total2, IntentBad>>,
      <<ContractJan, IntentBad, IntentOk, Total1>>,
      <<ContractJan, IntentShort, Total2, ContractFeb, IntentOk, TotalAndMonthToDate>>,
      <<ContractComexOnly, IntentOk, Total0, MonthToDate>>,
      <<ContractJan, ContractFeb, IntentOk, Total1, Exchange, MonthToDate>>,
      <<ContractJan, IntentOk, ExchangeMonthToDate>>,
      <<ContractJan, Total1, ContractWithIntent, Total2>>,
      <<ContractJan, IntentOk, Total2, Total1, MonthToDate, TotalAndMonthToDate>>,
      <<ContractJan, IntentOk, Total1, Total2, Total0>>,
      <<ContractJan, IntentOk>> \o Padding(LookaheadStop - 3) \o <<Total2, MonthToDate>>,
      <<ContractJan, IntentOk>> \o Padding(LookaheadStop - 2) \o <<Total2>>,
      <<ContractJan>> \o Padding(LookaheadStop - 2) \o <<IntentOk, Total2>>,
      <<ContractJan, Total2>> \o Padding(LookaheadStop - 2)
          \o <<ContractFeb, IntentOk, MonthToDate>> }

\* the pages of the enumerated two-page files
ShortPages == Texts({ContractJan, ContractFeb, IntentOk, Total2}, 2)

\* files of two and three pages: a record on every page, a block cut by the
\* end of its page, an empty page between two pages
FileSamples ==
    { << <<ContractJan, IntentOk, Total2>>, <<ContractFeb, IntentOk, MonthToDate>> >>,
      << <<ContractFeb, IntentOk, Total2, ContractJan>>, <<IntentOk, MonthToDate>> >>,
      << <<ContractJan, IntentOk>>, <<>>, <<Total2, ContractFeb, IntentOk, Total1>> >> }

\* the files: one page of up to MaxLines lines, or two short pages
DeliveryFiles ==
    {<<page>> : page \in Texts(PageAlphabet, MaxLines) \cup PageSamples}
    \cup {<<p, q>> : p \in ShortPages, q \in ShortPages}
    \cup FileSamples
    \cup {<<>>}

\* pc: "page", parse_file is between two pages; "scan", _parse_page is in its
\* while loop; "done", parse_file has returned all_records; k: the page;
\* i: the line; block, the locals of the lookahead of the pass before;
\* history: origin, all_origin, the page and line each record of records,
\* all_records was appended at
InitDelivery ==
    /\ NoEtl
    /\ px \in {[op |-> "parse_file", pc |-> "page", pages |-> f, k |-> 1, i |-> 1,
                records |-> <<>>, all_records |-> <<>>, origin |-> <<>>,
                all_origin |-> <<>>, block |-> NoScan] : f \in DeliveryFiles}

\* parse_file calls _parse_page for the next page
DelParsePage ==
    /\ px.op = "parse_file" /\ px.pc = "page"
    /\ px.k <= Len(px.pages)
    /\ px' = [px EXCEPT !.pc = "scan", !.i = 1, !.records = <<>>, !.origin = <<>>,
                        !.block = NoScan]
    /\ UNCHANGED <<storeVars, dataDir, pc, run, cur, runs>>

\* one pass through the while loop of _parse_page
DelScanLine ==
    /\ px.op = "parse_file" /\ px.pc = "scan"
    /\ LET lines == PageLines(px.pages, px.k)
           new == IF px.i <= Len(lines)
                  THEN ScanLine(lines, px.i, "Daily", AllPaths[1]) ELSE <<>>
       IN  /\ px.i <= Len(lines)
           /\ px' = [px EXCEPT !.i = NextLine(lines, px.i),
                               !.block = Block(lines, px.i),
                               !.records = @ \o new,
                               !.origin = @ \o [n \in 1..Len(new) |-> <<px.k, px.i>>]]
    /\ UNCHANGED <<storeVars, dataDir, pc, run, cur, runs>>

\* _parse_page returns records, parse_file extends all_records with them
DelExtend ==
    /\ px.op = "parse_file" /\ px.pc = "scan"
    /\ px.i > Len(PageLines(px.pages, px.k))
    /\ px' = [px EXCEPT !.pc = "page", !.k = @ + 1,
                        !.all_records = @ \o px.records,
                        !.all_origin = @ \o px.origin]
    /\ UNCHANGED <<storeVars, dataDir, pc, run, cur, runs>>

\* parse_file returns all_records
DelReturn ==
    /\ px.op = "parse_file" /\ px.pc = "page"
    /\ px.k > Len(px.pages)
    /\ px' = [px EXCEPT !.pc = "done"]
    /\ UNCHANGED <<storeVars, dataDir, pc, run, cur, runs>>

DeliveryNext ==
    \/ DelParsePage
    \/ DelScanLine
    \/ DelExtend
    \/ DelReturn

SpecDelivery == InitDelivery /\ [][DeliveryNext]_vars

-----------------------------------------------------------------------------
(* Claims about the delivery notice extractor *)

\* the lines the lookahead of the block at line c reads: those behind c, up
\* to the end of the range, with no CONTRACT: or EXCHANGE: line before them
BlockLines(lines, c) ==
    {j \in (c + 1)..Len(lines) :
        /\ j <= c + LookaheadStop - 1
        /\ \A h \in (c + 1)..(j - 1) : lines[h].starts \notin {"CONTRACT:", "EXCHANGE:"}}

\* a line of the block carries an intent date / a stopped or cumulative figure
IntentDateFound(lines, c) ==
    \E j \in BlockLines(lines, c) :
        /\ lines[j].intent.type = "str"
        /\ DateMatch(lines[j].intent.s)
        /\ parse_date_string(StrCell(SubSeq(lines[j].intent.s, 1, 10))) # NoDate

FigureFound(lines, c) ==
    \E j \in BlockLines(lines, c) :
        lines[j].numbers # <<>> /\ (lines[j].starts = "TOTAL:" \/ lines[j].mtd)

\* the number of records appended at line c of page k
Emitted(k, c) ==
    Cardinality({n \in DOMAIN px.origin : px.origin[n] = <<k, c>>})

\* C13 as stated: every record the page scan emits has an intent date and a
\* daily total or a cumulative figure; and every matched CONTRACT line in
\* whose lookahead an intent date and a stopped or cumulative figure were
\* found has emitted exactly one record.
C13_EmitsIffFound ==
    px.op = "parse_file" /\ px.pc = "scan" =>
        /\ \A n \in DOMAIN px.records :
              /\ px.records[n].intent_date # NoDate
              /\ px.records[n].daily_total # NoInt \/ px.records[n].cumulative # NoInt
        /\ \A c \in 1..(px.i - 1) :
              LET lines == px.pages[px.k]
              IN  (/\ lines[c].starts = "CONTRACT:"
                   /\ _extract_contract_from_line(lines[c]).ok
                   /\ IntentDateFound(lines, c)
                   /\ FigureFound(lines, c)) => Emitted(px.k, c) = 1

\* a block with an intent date and a total, followed by a second intent
\* date no format parses, was scanned to its end without a record
C13_Witness ==
    /\ px.op = "parse_file" /\ px.pc = "done"
    /\ px.pages = << <<ContractJan, IntentOk, Total2, IntentBad>> >>
    /\ px.all_records = <<>>

\* the records of a page, each block taken on its own, in line order
RECURSIVE PageRecordsFrom(_, _)
PageRecordsFrom(lines, i) ==
    IF i > Len(lines) THEN <<>>
    ELSE ScanLine(lines, i, "Daily", AllPaths[1]) \o PageRecordsFrom(lines, i + 1)

\* the records of the pages from page k on
RECURSIVE FileRecordsFrom(_, _)
FileRecordsFrom(pages, k) ==
    IF k > Len(pages) THEN <<>>
    ELSE PageRecordsFrom(pages[k], 1) \o FileRecordsFrom(pages, k + 1)

\* C16: parse_file returns the records of its pages in page order, those of
\* a page in the order of their CONTRACT lines, and every record is the one
\* its CONTRACT line yields from the lines of its own page alone.
C16_PageOrder ==
    px.op = "parse_file" /\ px.pc = "done" =>
        /\ Len(px.all_origin) = Len(px.all_records)
        /\ \A n \in DOMAIN px.all_origin :
              /\ px.all_origin[n][1] \in 1..Len(px.pages)
              /\ px.all_origin[n][2] \in 1..Len(px.pages[px.all_origin[n][1]])
              /\ px.pages[px.all_origin[n][1]][px.all_origin[n][2]].starts = "CONTRACT:"
              /\ <<px.all_records[n]>> =
                    ScanLine(px.pages[px.all_origin[n][1]], px.all_origin[n][2],
                             "Daily", AllPaths[1])
        /\ \A n, o \in DOMAIN px.all_origin :
              n < o => \/ px.all_origin[n][1] < px.all_origin[o][1]
                       \/ /\ px.all_origin[n][1] = px.all_origin[o][1]
                          /\ px.all_origin[n][2] < px.all_origin[o][2]
        /\ px.all_records = FileRecordsFrom(px.pages, 1)

\* a file of two pages returned one record of each page, in page order; the
\* block cut by the end of page 1 took nothing from page 2
C16_Witness ==
    /\ px.op = "parse_file" /\ px.pc = "done"
    /\ px.pages = << <<ContractFeb, IntentOk, Total2, ContractJan>>,
                     <<IntentOk, MonthToDate>> >>
    /\ px.all_origin = << <<1, 1>> >>
    /\ Len(px.all_records) = 1

\* C20: every pass of the page scan moves on by exactly one line and appends
\* at most one record, for the CONTRACT line it stands on; among the lines
\* passed, exactly the matched CONTRACT lines whose own block has an intent
\* date and a figure have a record, whatever the blocks before them read:
\* an unmatched CONTRACT line or a block without intent date adds nothing
\* and the scan goes on.
C20_ScanLineByLine ==
    [][(px.op = "parse_file" /\ px.pc = "scan" /\ px'.pc = "scan") =>
          LET lines == px.pages[px.k]
          IN  /\ px'.i = px.i + 1
              /\ px'.i <= Len(lines) + 1
              /\ Len(px'.records) \in {Len(px.records), Len(px.records) + 1}
              /\ SubSeq(px'.records, 1, Len(px.records)) = px.records
              /\ Len(px'.records) > Len(px.records) =>
                    /\ lines[px.i].starts = "CONTRACT:"
                    /\ px'.origin[Len(px'.origin)] = <<px.k, px.i>>
              /\ \A c \in 1..px.i :
                    Cardinality({n \in DOMAIN px'.origin : px'.origin[n] = <<px.k, c>>})
                        = Len(ScanLine(lines, c, "Daily", AllPaths[1]))]_vars

\* a page on which a block without a parsable intent date is followed, inside
\* its lookahead range, by a block that yielded its record
C20_Witness ==
    /\ px.op = "parse_file" /\ px.pc = "scan"
    /\ px.pages = << <<ContractJan, IntentShort, Total2, ContractFeb, IntentOk,
                       TotalAndMonthToDate>> >>
    /\ px.i = 7
    /\ px.origin = << <<1, 4>> >>
    /\ px.records[1].cumulative = 0

-----------------------------------------------------------------------------
(* InventoryParser: parse_file, _extract_metadata, _read_data_table,
   _convert_to_records *)

\* the rows _extract_metadata reads: nrows=15
HeaderRows == 15

\* the offsets _read_data_table tries: range(5, 15)
SkipFrom == 5
SkipTo == 14

\* the longest run of header rows and of data rows of the enumerated sheets
MaxRows == 2

\* a row of the sheet. cells: its cells; and what _extract_metadata reads of
\* the text of the row: activity / report, the text contains "Activity Date"
\* / "Report Date" in any case; unit, it contains "Troy Ounce"; date, the
\* text matched by (.+) of r':\s*(.+)' (no match: NoneCell)
Row(cells, activity, report, unit, date) ==
    [cells |-> cells, activity |-> activity, report |-> report, unit |-> unit,
     date |-> date]

\* a row of the table and a row of other text: none of the keywords
TableRow(cells) == Row(cells, FALSE, FALSE, FALSE, NoneCell)
TextRow == TableRow(<<StrCell(<<"C", "O", "M", "E", "X">>), NoneCell, NoneCell, NoneCell>>)

\* a header row: its cells hold no column name
MetaRow(activity, report, unit, date) == Row(TextRow.cells, activity, report, unit, date)

\* a sheet: readable, pandas opens the file; word, the product word of the
\* file name; rows, the rows of the sheet, all of one width
Sheet(readable, word, rows) == [readable |-> readable, word |-> word, rows |-> rows]

\* _detect_product
_detect_product(word) ==
    IF word = "gold" THEN "Gold" ELSE IF word = "silver" THEN "Silver" ELSE "Unknown"

\* s holds sub: sub in s
Contains(s, sub) ==
    \E i \in 1..(Len(s) - Len(sub) + 1) : SubSeq(s, i, i + Len(sub) - 1) = sub

\* the digits of a natural number
RECURSIVE Digits(_)
Digits(v) == IF v < 10 THEN Pad(v, 1) ELSE Digits(v \div 10) \o Pad(v % 10, 1)

\* str(cell): a missing cell reads "nan", a whole number m * 10^e its digits
Str(cell) ==
    CASE cell.type = "none" -> <<"n", "a", "n">>
      [] cell.type = "str" -> cell.s
      [] cell.type = "num" -> Digits(cell.v[1]) \o [i \in 1..cell.v[2] |-> "0"]

\* metadata = {}: no key set; a unit that is not set reads 'Troy Ounces' at
\* the one place it is read (metadata.get('unit', 'Troy Ounces'))
NoMetadata == [activity_date |-> NoDate, report_date |-> NoDate, unit |-> "Troy Ounces"]

\* the date of a header row: parse_date_string(date_match.group(1).strip())
MetaDate(row) ==
    IF row.date.type = "none" THEN NoDate
    ELSE parse_date_string(StrCell(Strip(row.date.s)))

\* one pass of the loop over the header rows
ReadMeta(metadata, row) ==
    LET a == IF row.activity /\ MetaDate(row) # NoDate
             THEN [metadata EXCEPT !.activity_date = MetaDate(row)] ELSE metadata
        r == IF row.report /\ MetaDate(row) # NoDate
             THEN [a EXCEPT !.report_date = MetaDate(row)] ELSE a
    IN  IF row.unit THEN [r EXCEPT !.unit = "Troy Ounces"] ELSE r

RECURSIVE MetadataFrom(_, _, _)
MetadataFrom(rows, i, metadata) ==
    IF i > Len(rows) \/ i > HeaderRows THEN metadata
    ELSE MetadataFrom(rows, i + 1, ReadMeta(metadata, rows[i]))

\* _extract_metadata: None and {} are both NoMetadata, parse_file tells
\* neither from the other (not metadata)
_extract_metadata(file) ==
    IF file.readable THEN MetadataFrom(file.rows, 1, NoMetadata) ELSE NoMetadata

\* the guard of parse_file with the data table read on a report date alone
HasAnyDate(metadata) ==
    metadata.activity_date # NoDate \/ metadata.report_date # NoDate

\* not (not metadata or not metadata.get('activity_date'))
HasActivityDate(metadata) == metadata.activity_date # NoDate

\* df is None; history: skip, the offset the table was read at; tried, the
\* offsets tried
NoTable == [found |-> FALSE, columns |-> <<>>, rows |-> <<>>, skip |-> 0, tried |-> {}]

\* the column names pandas reads with skiprows=skip, as str(col) gives
\* them: a cell without text is named "Unnamed: n"
ColumnsAt(file, skip) ==
    [c \in DOMAIN file.rows[skip + 1].cells |->
        IF file.rows[skip + 1].cells[c].type = "none" THEN <<"U", "n", "n", "a", "m", "e", "d">>
        ELSE Str(file.rows[skip + 1].cells[c])]

\* df.columns.str.strip(): a name that is no text becomes NaN
Stripped(file, skip) ==
    [c \in DOMAIN file.rows[skip + 1].cells |->
        IF file.rows[skip + 1].cells[c].type = "num" THEN <<"n", "a", "n">>
        ELSE Strip(ColumnsAt(file, skip)[c])]

\* the read with skiprows=skip raises (no row is left for the column names)
\* or its column names hold neither 'depository' nor 'warehouse'
Rejected(file, skip) ==
    \/ ~file.readable
    \/ skip >= Len(file.rows)
    \/ \A c \in DOMAIN ColumnsAt(file, skip) :
          Lower(ColumnsAt(file, skip)[c]) \notin {<<"d", "e", "p", "o", "s", "i", "t", "o", "r", "y">>, <<"w", "a", "r", "e", "h", "o", "u", "s", "e">>}

\* _read_data_table from offset skip on
RECURSIVE ReadTableFrom(_, _, _)
ReadTableFrom(file, skip, tried) ==
    IF skip > SkipTo THEN [NoTable EXCEPT !.tried = tried]
    ELSE IF Rejected(file, skip) THEN ReadTableFrom(file, skip + 1, tried \cup {skip})
    ELSE [found |-> TRUE,
          columns |-> Stripped(file, skip),
          rows |-> SubSeq(file.rows, skip + 2, Len(file.rows)),
          skip |-> skip,
          tried |-> tried \cup {skip}]

\* the offsets tried from one below the first on
ReadDataTableFromOneBelow(file) == ReadTableFrom(file, SkipFrom - 1, {})

_read_data_table(file) == ReadTableFrom(file, SkipFrom, {})

\* the field the if / elif chain of the column loop binds a column name to
FieldOf(col) ==
    LET col_lower == Strip(Lower(col))
    IN  IF Contains(col_lower, <<"d", "e", "p", "o", "s", "i", "t", "o", "r", "y">>) \/ Contains(col_lower, <<"w", "a", "r", "e", "h", "o", "u", "s", "e">>)
        THEN "depository"
        ELSE IF Contains(col_lower, <<"r", "e", "g", "i", "s", "t", "e", "r", "e", "d">>) THEN "registered"
        ELSE IF Contains(col_lower, <<"e", "l", "i", "g", "i", "b", "l", "e">>) THEN "eligible"
        ELSE IF Contains(col_lower, <<"t", "o", "t", "a", "l">>) THEN "total"
        ELSE "none"

\* columns_map.get(field): the last column bound to the field, 0 for None
ColumnFor(columns, field) ==
    LET bound == {c \in DOMAIN columns : FieldOf(columns[c]) = field}
    IN  IF bound = {} THEN 0 ELSE CHOOSE c \in bound : \A o \in bound : o <= c

\* the summary labels with 'Grand Total' left out
SummaryLabelsWithoutGrandTotal == {<<>>, <<"T", "o", "t", "a", "l">>, <<"T", "O", "T", "A", "L">>}

\* the labels of the rows the row loop skips
SummaryLabels == {<<>>, <<"T", "o", "t", "a", "l">>, <<"T", "O", "T", "A", "L">>, <<"G", "r", "a", "n", "d", " ", "T", "o", "t", "a", "l">>}

\* the row loop goes on to the next row without a record
Skipped(cell) ==
    \/ cell.type = "none"
    \/ Strip(Str(cell)) \in SummaryLabels
    \/ Contains(Lower(Strip(Str(cell))), <<"d", "e", "p", "o", "s", "i", "t", "o", "r", "y">>)

\* clean_numeric_string of the cell of a bound column, None for no column
NumericField(df, row, field) ==
    IF ColumnFor(df.columns, field) = 0 THEN Absent
    ELSE clean_numeric_string(row.cells[ColumnFor(df.columns, field)])

\* the record of a row that is not skipped
RecordOf(df, row, product, metadata) ==
    [activity_date |-> metadata.activity_date,
     product |-> product,
     depository |-> Strip(Str(row.cells[ColumnFor(df.columns, "depository")])),
     registered |-> NumericField(df, row, "registered"),
     eligible |-> NumericField(df, row, "eligible"),
     total |-> NumericField(df, row, "total"),
     unit |-> metadata.unit,
     report_date |-> metadata.report_date]

\* header rows
ActivityOk == MetaRow(TRUE, FALSE, FALSE, StrCell(<<"0", "1", "/", "1", "2", "/", "2", "0", "2", "4", " ">>))
ActivityLater == MetaRow(TRUE, FALSE, FALSE, StrCell(<<"2", "0", "2", "4", "-", "0", "1", "-", "1", "5">>))
ActivityBad == MetaRow(TRUE, FALSE, FALSE, StrCell(<<"0", "1", "/", "1", "2">>))
ActivityNoColon == MetaRow(TRUE, FALSE, FALSE, NoneCell)
ReportOk == MetaRow(FALSE, TRUE, FALSE, StrCell(<<"0", "1", "/", "1", "3", "/", "2", "0", "2", "4">>))
ActivityAndReport == MetaRow(TRUE, TRUE, FALSE, StrCell(<<"0", "1", "/", "1", "4", "/", "2", "0", "2", "4">>))
UnitRow == MetaRow(FALSE, FALSE, TRUE, NoneCell)

MetaAlphabet ==
    {ActivityOk, ActivityLater, ActivityBad, ActivityNoColon, ReportOk,
     ActivityAndReport, UnitRow}

\* header rows of the table
Columns4 == TableRow(<<StrCell(<<"D", "e", "p", "o", "s", "i", "t", "o", "r", "y">>), StrCell(<<"R", "e", "g", "i", "s", "t", "e", "r", "e", "d">>),
                       StrCell(<<"E", "l", "i", "g", "i", "b", "l", "e">>), StrCell(<<"T", "o", "t", "a", "l">>)>>)
Columns2 == TableRow(<<StrCell(<<"W", "A", "R", "E", "H", "O", "U", "S", "E">>), StrCell(<<" ", "T", "o", "t", "a", "l", " ", "R", "e", "g", "i", "s", "t", "e", "r", "e", "d", " ">>),
                       NoneCell, NumCell(2024, 0)>>)
ColumnsNamed == TableRow(<<StrCell(<<"D", "e", "p", "o", "s", "i", "t", "o", "r", "y", " ", "N", "a", "m", "e">>), StrCell(<<"R", "e", "g", "i", "s", "t", "e", "r", "e", "d">>),
                           StrCell(<<"E", "l", "i", "g", "i", "b", "l", "e">>), StrCell(<<"T", "o", "t", "a", "l">>)>>)
\* two column names holding "registered"
ColumnsTwice == TableRow(<<StrCell(<<"D", "e", "p", "o", "s", "i", "t", "o", "r", "y">>), StrCell(<<"R", "e", "g", "i", "s", "t", "e", "r", "e", "d">>),
                           StrCell(<<"P", "r", "i", "o", "r", " ", "R", "e", "g", "i", "s", "t", "e", "r", "e", "d">>), StrCell(<<"T", "o", "t", "a", "l">>)>>)
ColumnsOther == TableRow(<<StrCell(<<"V", "a", "u", "l", "t">>), StrCell(<<"R", "e", "g", "i", "s", "t", "e", "r", "e", "d">>),
                           StrCell(<<"E", "l", "i", "g", "i", "b", "l", "e">>), StrCell(<<"T", "o", "t", "a", "l">>)>>)

\* the depository cells and the cells of the registered column
DepositoryCells ==
    {NoneCell, StrCell(<<" ", " ">>), StrCell(<<"T", "o", "t", "a", "l">>), StrCell(<<" ", "T", "O", "T", "A", "L">>),
     StrCell(<<"G", "r", "a", "n", "d", " ", "T", "o", "t", "a", "l">>), StrCell(<<"t", "o", "t", "a", "l">>), StrCell(<<"D", "e", "p", "o", "s", "i", "t", "o", "r", "y">>),
     StrCell(<<"D", "E", "P", "O", "S", "I", "T", "O", "R", "Y", " ", "N", "A", "M", "E">>), StrCell(<<"B", "r", "i", "n", "k", "s">>), StrCell(<<" ", "J", "P", "M", " ">>),
     NumCell(7, 0)}

RegisteredCells == {NumCell(15, 2), StrCell(<<"1", ",", "2", "3", "4">>), StrCell(<<"N", "/", "A">>)}

DataRows ==
    {TableRow(<<d, NumCell(15, 2), NoneCell, NumCell(9, 0)>>) : d \in DepositoryCells}
    \cup {TableRow(<<StrCell(<<"B", "r", "i", "n", "k", "s">>), r, NoneCell, NumCell(9, 0)>>) :
            r \in RegisteredCells}

\* n rows of other text
TextRows(n) == [i \in 1..n |-> TextRow]

\* a sheet: header rows, rows of other text up to the offset skip, the
\* column names and the data rows
SheetOf(meta, skip, columns, data) ==
    Sheet(TRUE, "gold", meta \o TextRows(skip - Len(meta)) \o <<columns>> \o data)

\* the sheets: every run of header rows over one table; every run of data
\* rows under an activity date; the table at the first and last offset tried
\* and one before and behind them; the column names of each kind; an
\* activity date behind the rows read; a sheet without data rows; a file
\* pandas cannot open
InventoryFiles ==
    {SheetOf(meta, SkipFrom, Columns4, <<TableRow(<<StrCell(<<"B", "r", "i", "n", "k", "s">>), NumCell(15, 2),
                                                  NoneCell, NumCell(9, 0)>>)>>) :
        meta \in Texts(MetaAlphabet, MaxRows)}
    \cup {SheetOf(<<ActivityOk>>, SkipFrom, Columns4, data) :
            data \in Texts(DataRows, MaxRows)}
    \cup {SheetOf(<<ReportOk, ActivityOk>>, skip, columns,
                  <<TableRow(<<d, NumCell(15, 2), NoneCell, NumCell(9, 0)>>)>>) :
            skip \in {SkipFrom - 1, SkipFrom, SkipTo, SkipTo + 1},
            columns \in {Columns4, Columns2, ColumnsNamed, ColumnsTwice, ColumnsOther},
            d \in DepositoryCells}
    \cup {Sheet(TRUE, "silver",
                TextRows(HeaderRows) \o <<ActivityOk, Columns4>>
                \o <<TableRow(<<StrCell(<<"B", "r", "i", "n", "k", "s">>), NumCell(15, 2), NoneCell,
                               NumCell(9, 0)>>)>>),
          Sheet(FALSE, "gold", <<>>),
          Sheet(TRUE, "stocks", <<>>)}

\* pc: "metadata", parse_file is about to read the header rows; "table", it
\* has an activity date; "rows", _convert_to_records is in its row loop at
\* row idx of df; "done", parse_file has returned records. history:
\* read_table, _read_data_table was called; origin, the row of df each
\* record was appended at
InitInventory ==
    /\ NoEtl
    /\ px \in {[op |-> "parse_inventory", pc |-> "metadata", file |-> f,
                product |-> _detect_product(f.word), metadata |-> NoMetadata,
                df |-> NoTable, read_table |-> FALSE, idx |-> 1,
                records |-> <<>>, origin |-> <<>>] : f \in InventoryFiles}

\* metadata = self._extract_metadata(file_path); without activity date
\* parse_file returns []
InvExtractMetadata ==
    /\ px.op = "parse_inventory" /\ px.pc = "metadata"
    /\ px' = [px EXCEPT !.metadata = _extract_metadata(px.file),
                        !.pc = IF HasActivityDate(_extract_metadata(px.file))
                               THEN "table" ELSE "done"]
    /\ UNCHANGED <<storeVars, dataDir, pc, run, cur, runs>>

\* df = self._read_data_table(file_path); parse_file returns [] for no table
\* and for a table without rows, _convert_to_records returns [] for a table
\* without depository column
InvReadDataTable ==
    /\ px.op = "parse_inventory" /\ px.pc = "table"
    /\ LET df == _read_data_table(px.file)
       IN  px' = [px EXCEPT !.df = df,
                            !.read_table = TRUE,
                            !.pc = IF /\ df.found
                                      /\ df.rows # <<>>
                                      /\ ColumnFor(df.columns, "depository") # 0
                                   THEN "rows" ELSE "done"]
    /\ UNCHANGED <<storeVars, dataDir, pc, run, cur, runs>>

\* one pass of the row loop of _convert_to_records
InvConvertRow ==
    /\ px.op = "parse_inventory" /\ px.pc = "rows"
    /\ px.idx <= Len(px.df.rows)
    /\ LET row == px.df.rows[px.idx]
           kept == ~Skipped(row.cells[ColumnFor(px.df.columns, "depository")])
       IN  px' = [px EXCEPT
                    !.idx = px.idx + 1,
                    !.records = IF kept
                                THEN Append(px.records,
                                            RecordOf(px.df, row, px.product, px.metadata))
                                ELSE px.records,
                    !.origin = IF kept THEN Append(px.origin, px.idx) ELSE px.origin]
    /\ UNCHANGED <<storeVars, dataDir, pc, run, cur, runs>>

\* return records
InvReturn ==
    /\ px.op = "parse_inventory" /\ px.pc = "rows"
    /\ px.idx > Len(px.df.rows)
    /\ px' = [px EXCEPT !.pc = "done"]
    /\ UNCHANGED <<storeVars, dataDir, pc, run, cur, runs>>

InventoryNext ==
    \/ InvExtractMetadata
    \/ InvReadDataTable
    \/ InvConvertRow
    \/ InvReturn

SpecInventory == InitInventory /\ [][InventoryNext]_vars

-----------------------------------------------------------------------------
(* Claims about the inventory extractor *)

\* the depository text of row n of the table
DepositoryText(df, n) ==
    Strip(Str(df.rows[n].cells[ColumnFor(df.columns, "depository")]))

\* row n of the table has a missing or blank depository, a summary label or
\* a text holding "depository" in any case
Dropped(df, n) ==
    \/ df.rows[n].cells[ColumnFor(df.columns, "depository")].type = "none"
    \/ DepositoryText(df, n) = <<>>
    \/ DepositoryText(df, n) \in {<<"T", "o", "t", "a", "l">>, <<"T", "O", "T", "A", "L">>, <<"G", "r", "a", "n", "d", " ", "T", "o", "t", "a", "l">>}
    \/ Contains(Lower(DepositoryText(df, n)), <<"d", "e", "p", "o", "s", "i", "t", "o", "r", "y">>)

\* the rows among the first n of the table that are not dropped, in row order
RECURSIVE KeptRows(_, _)
KeptRows(df, n) ==
    IF n = 0 THEN <<>>
    ELSE KeptRows(df, n - 1) \o (IF Dropped(df, n) THEN <<>> ELSE <<n>>)

\* C14: no record of the inventory extractor has a blank depository, one of
\* the summary labels "Total", "TOTAL", "Grand Total" or a text holding
\* "depository" in any case, whatever the numeric cells of its row; the
\* records are those of the other data rows, one for each, in row order,
\* each with the depository text of its row.
C14_SummaryRowsDropped ==
    px.op = "parse_inventory" =>
        /\ \A n \in DOMAIN px.records :
              /\ Strip(px.records[n].depository) # <<>>
              /\ px.records[n].depository \notin {<<"T", "o", "t", "a", "l">>, <<"T", "O", "T", "A", "L">>, <<"G", "r", "a", "n", "d", " ", "T", "o", "t", "a", "l">>}
              /\ ~Contains(Lower(px.records[n].depository), <<"d", "e", "p", "o", "s", "i", "t", "o", "r", "y">>)
        /\ px.origin = KeptRows(px.df, px.idx - 1)
        /\ Len(px.records) = Len(px.origin)
        /\ \A n \in DOMAIN px.origin :
              px.records[n].depository = DepositoryText(px.df, px.origin[n])
        /\ (/\ px.pc = "done"
            /\ px.df.found
            /\ ColumnFor(px.df.columns, "depository") # 0) =>
                 px.idx = Len(px.df.rows) + 1

\* a table of a "Grand Total" row with numeric cells and a depository row
\* gave the one record of the second row
C14_Witness ==
    /\ px.op = "parse_inventory" /\ px.pc = "done"
    /\ Len(px.df.rows) = 2
    /\ px.df.rows[1].cells[1] = StrCell(<<"G", "r", "a", "n", "d", " ", "T", "o", "t", "a", "l">>)
    /\ px.df.rows[1].cells[2] = NumCell(15, 2)
    /\ px.origin = <<2>>
    /\ px.records[1].depository = <<"J", "P", "M">>

\* the dates of the rows holding "Activity Date" among the header rows read
ActivityDates(file) ==
    IF ~file.readable THEN {}
    ELSE {MetaDate(file.rows[i]) :
            i \in {h \in DOMAIN file.rows : h <= HeaderRows /\ file.rows[h].activity}}
         \ {NoDate}

\* C15: for a document in whose header rows no Activity Date is found, a
\* Report Date or not, parse_file returns the empty list and has not read
\* the data table; every record carries an activity date, and it is the date
\* of a row holding "Activity Date", never the date of a Report Date row.
C15_NoActivityDateNoRecords ==
    px.op = "parse_inventory" =>
        /\ (px.pc # "metadata" /\ ActivityDates(px.file) = {}) =>
              /\ px.pc = "done"
              /\ px.records = <<>>
              /\ ~px.read_table
              /\ px.df = NoTable
        /\ px.read_table => ActivityDates(px.file) # {}
        /\ \A n \in DOMAIN px.records :
              /\ px.records[n].activity_date # NoDate
              /\ px.records[n].activity_date \in ActivityDates(px.file)

\* a sheet with a Report Date, no Activity Date and a table with a
\* depository row: parse_file has returned no record and not read the table
C15_Witness ==
    /\ px.op = "parse_inventory" /\ px.pc = "done"
    /\ Len(px.file.rows) = SkipFrom + 2
    /\ px.file.rows[1] = ReportOk
    /\ px.file.rows[SkipFrom + 1] = Columns4
    /\ px.metadata.report_date # NoDate
    /\ px.metadata.activity_date = NoDate
    /\ ~px.read_table
    /\ px.records = <<>>

-----------------------------------------------------------------------------
(* A claim about the upserts, checked under SpecUpsert *)

\* C17: a call of insert_inventory_records or insert_delivery_records with
\* an empty list returns 0, raises nothing and leaves the inventory table,
\* the delivery table and the ledger as they were, whatever fault a
\* connection would have met.
C17_EmptyListNoEffect ==
    [][(/\ ret'.op \in {"insert_inventory_records", "insert_delivery_records"}
        /\ ret'.args = <<>>
        /\ now' = now) =>
            /\ ret'.value = 0
            /\ ret'.raised = NoError
            /\ db' = db
            /\ lastInv' = lastInv /\ lastDel' = lastDel /\ lastLog' = lastLog]_vars

\* both calls were made with an empty list on a database that holds rows
C17_Witness ==
    /\ ret.op = "insert_delivery_records"
    /\ ret.args = <<>>
    /\ ret.again
    /\ ret.value = 0
    /\ db.inventory # {}
    /\ db.delivery # {}

-----------------------------------------------------------------------------
(* Claims about the lookahead of a CONTRACT block *)

\* the page scan has just passed a matched CONTRACT line
PassedContract ==
    /\ px.op = "parse_file" /\ px.pc = "scan" /\ px.i > 1
    /\ px.pages[px.k][px.i - 1].starts = "CONTRACT:"
    /\ _extract_contract_from_line(px.pages[px.k][px.i - 1]).ok

\* a line that carries one of the keys of the lookahead
Keyed(line) == line.intent.type = "str" \/ line.starts = "TOTAL:" \/ line.mtd

Boundary(line) == line.starts \in {"CONTRACT:", "EXCHANGE:"}

\* the lines c + 1 .. c + n of the page with no boundary line before them
Window(lines, c, n) ==
    {j \in (c + 1)..(c + n) :
        /\ j <= Len(lines)
        /\ \A h \in (c + 1)..(j - 1) : ~Boundary(lines[h])}

\* C21 as stated: for a matched CONTRACT line at line c, every keyed line
\* among the lines c + 1 .. c + 20 of the page that has no block boundary
\* before it is read for the block, and no line behind line c + 20 is.
C21_TwentyLines ==
    PassedContract =>
        LET lines == px.pages[px.k]
            c == px.i - 1
        IN  /\ \A j \in Window(lines, c, 20) : Keyed(lines[j]) => j \in px.block.read
            /\ \A j \in px.block.read : c < j /\ j <= c + 20

\* a block whose TOTAL: line, 19 lines behind the CONTRACT line, was read,
\* and whose MONTH TO DATE: line, 20 lines behind it, was not
C21_Witness ==
    /\ PassedContract
    /\ px.i = 2
    /\ Len(px.pages[px.k]) = 21
    /\ px.pages[px.k][20] = Total2
    /\ px.pages[px.k][21] = MonthToDate
    /\ px.block.read = 2..20
    /\ px.block.daily_stopped = 15
    /\ px.block.cumulative = NoInt

\* C22: the lookahead of a block reads no line behind the first line that
\* starts with CONTRACT: or EXCHANGE:, and the intent date and the figures
\* of the block are those of lines it read: nothing on a line behind the
\* boundary is attributed to the block, inside the range of the lookahead
\* or not.
C22_StopsAtBoundary ==
    PassedContract =>
        LET lines == px.pages[px.k]
            c == px.i - 1
            before == Window(lines, c, Len(lines))
        IN  /\ px.block.read \subseteq before
            /\ px.block.intent_date # NoDate =>
                  \E j \in before :
                      /\ lines[j].intent.type = "str"
                      /\ DateMatch(lines[j].intent.s)
                      /\ parse_date_string(StrCell(SubSeq(lines[j].intent.s, 1, 10)))
                            = px.block.intent_date
            /\ px.block.daily_stopped # NoInt =>
                  \E j \in before :
                      /\ lines[j].starts = "TOTAL:"
                      /\ \E n \in {1, 2} \cap DOMAIN lines[j].numbers :
                            lines[j].numbers[n] = px.block.daily_stopped
            /\ px.block.cumulative # NoInt =>
                  \E j \in before :
                      /\ lines[j].mtd /\ lines[j].numbers # <<>>
                      /\ lines[j].numbers[Len(lines[j].numbers)] = px.block.cumulative

\* a block ended by an EXCHANGE: line with a MONTH TO DATE: line right
\* behind it gave its record without cumulative figure
C22_Witness ==
    /\ px.op = "parse_file" /\ px.pc = "done"
    /\ px.pages = << <<ContractJan, ContractFeb, IntentOk, Total1, Exchange, MonthToDate>> >>
    /\ px.all_origin = << <<1, 2>> >>
    /\ px.all_records[1].daily_total = 9
    /\ px.all_records[1].cumulative = NoInt

\* the last of a set of lines
LastOf(js) == CHOOSE j \in js : \A h \in js : h <= j

\* C23: in a block, issued is the first integer of the last TOTAL: line
\* read that carries two or more, stopped the second integer of the last
\* TOTAL: line read that carries any, or its only one, cumulative the last
\* integer of the last MONTH TO DATE: line read that carries any; the
\* record of the block has stopped for daily_total and that cumulative.
C23_Figures ==
    PassedContract =>
        LET lines == px.pages[px.k]
            total == {j \in px.block.read :
                        lines[j].starts = "TOTAL:" /\ lines[j].numbers # <<>>}
            total2 == {j \in total : Len(lines[j].numbers) >= 2}
            mtd == {j \in px.block.read : lines[j].mtd /\ lines[j].numbers # <<>>}
        IN  /\ px.block.daily_issued =
                  IF total2 = {} THEN NoInt ELSE lines[LastOf(total2)].numbers[1]
            /\ px.block.daily_stopped =
                  IF total = {} THEN NoInt
                  ELSE IF LastOf(total) \in total2 THEN lines[LastOf(total)].numbers[2]
                  ELSE lines[LastOf(total)].numbers[1]
            /\ px.block.cumulative =
                  IF mtd = {} THEN NoInt
                  ELSE lines[LastOf(mtd)].numbers[Len(lines[LastOf(mtd)].numbers)]
            /\ \A n \in DOMAIN px.origin :
                  px.origin[n] = <<px.k, px.i - 1>> =>
                      /\ px.records[n].daily_total = px.block.daily_stopped
                      /\ px.records[n].cumulative = px.block.cumulative

\* a block with a TOTAL: line of one integer, then one of two, then one of
\* none: issued 7, stopped 15, and the record carries 15
C23_Witness ==
    /\ PassedContract
    /\ px.pages = << <<ContractJan, IntentOk, Total1, Total2, Total0>> >>
    /\ px.i = 2
    /\ px.block.daily_issued = 7
    /\ px.block.daily_stopped = 15
    /\ px.records[1].daily_total = 15

\* C28 as stated: the line that ends the lookahead of a block gives the
\* block nothing: the intent date and the cumulative figure of the block
\* are those of the lines read before it.
C28_BoundaryLineIgnored ==
    PassedContract =>
        LET lines == px.pages[px.k]
            inner == {j \in px.block.read : ~Boundary(lines[j])}
            mtd == {j \in inner : lines[j].mtd /\ lines[j].numbers # <<>>}
            dated == {j \in inner : lines[j].intent.type = "str"
                                        /\ DateMatch(lines[j].intent.s)}
        IN  /\ px.block.cumulative =
                  IF mtd = {} THEN NoInt
                  ELSE lines[LastOf(mtd)].numbers[Len(lines[LastOf(mtd)].numbers)]
            /\ px.block.intent_date =
                  IF dated = {} THEN NoDate
                  ELSE parse_date_string(StrCell(SubSeq(lines[LastOf(dated)].intent.s, 1, 10)))

\* the record of a block ended by "EXCHANGE: COMEX MONTH TO DATE: 50"
\* carries the 50 of that line
C28_Witness ==
    /\ px.op = "parse_file" /\ px.pc = "done"
    /\ px.pages = << <<ContractJan, IntentOk, ExchangeMonthToDate>> >>
    /\ Len(px.all_records) = 1
    /\ px.all_records[1].cumulative = 50

-----------------------------------------------------------------------------
(* Claims about the table of the inventory sheet *)

\* the read at offset skip raises nothing and one of its column names is
\* "depository" or "warehouse" in any case
Accepted(file, skip) ==
    /\ skip < Len(file.rows)
    /\ \E c \in DOMAIN file.rows[skip + 1].cells :
          Lower(ColumnsAt(file, skip)[c]) \in {<<"d", "e", "p", "o", "s", "i", "t", "o", "r", "y">>, <<"w", "a", "r", "e", "h", "o", "u", "s", "e">>}

\* C24: _read_data_table tries the offsets 5, 6, ... in increasing order up
\* to the first whose header row has a column named "depository" or
\* "warehouse" in any case and returns the table read at it; an offset at
\* which the read raises is passed over; no offset below 5 or above 14 is
\* tried; if none of 5 .. 14 qualifies, parse_file returns no record and
\* raises nothing.
C24_OffsetProbe ==
    (px.op = "parse_inventory" /\ px.read_table) =>
        LET ok == {k \in 5..14 : Accepted(px.file, k)}
            first == CHOOSE k \in ok : \A o \in ok : k <= o
        IN  /\ px.df.tried \subseteq 5..14
            /\ IF ok = {}
               THEN /\ ~px.df.found
                    /\ px.df.tried = 5..14
                    /\ px.pc = "done"
                    /\ px.records = <<>>
               ELSE /\ px.df.found
                    /\ px.df.skip = first
                    /\ px.df.tried = 5..first
                    /\ px.df.columns = Stripped(px.file, first)
                    /\ px.df.rows = SubSeq(px.file.rows, first + 2, Len(px.file.rows))

\* a sheet whose column names stand at offset 5 and again, as a data row, at
\* offset 6: the table was read at offset 5, and gave the record of its
\* second row
C24_Witness ==
    /\ px.op = "parse_inventory" /\ px.pc = "done"
    /\ px.df.found
    /\ px.df.skip = 5
    /\ Accepted(px.file, 6)
    /\ px.origin = <<2>>

\* the rule a column name satisfies first: depository / warehouse,
\* registered, eligible, total, by substring in any case
RuleOf(name) ==
    LET n == Lower(Strip(name))
    IN  IF Contains(n, <<"d", "e", "p", "o", "s", "i", "t", "o", "r", "y">>) \/ Contains(n, <<"w", "a", "r", "e", "h", "o", "u", "s", "e">>) THEN "depository"
        ELSE IF Contains(n, <<"r", "e", "g", "i", "s", "t", "e", "r", "e", "d">>) THEN "registered"
        ELSE IF Contains(n, <<"e", "l", "i", "g", "i", "b", "l", "e">>) THEN "eligible"
        ELSE IF Contains(n, <<"t", "o", "t", "a", "l">>) THEN "total"
        ELSE "none"

\* the first column whose name satisfies the rule of the field first, 0 for none
FirstBound(columns, field) ==
    LET cs == {c \in DOMAIN columns : RuleOf(columns[c]) = field}
    IN  IF cs = {} THEN 0 ELSE CHOOSE c \in cs : \A o \in cs : c <= o

\* C25 as stated: every column name is bound to the first of the rules
\* depository / warehouse, registered, eligible, total it satisfies, and a
\* field stays bound to the first column bound to it: every record has the
\* depository and the numeric fields of those columns of its row, an absent
\* field for a field without column, and without depository column there
\* is no record.
C25_FirstBindingKept ==
    (px.op = "parse_inventory" /\ px.df.found) =>
        /\ FirstBound(px.df.columns, "depository") = 0 => px.records = <<>>
        /\ \A n \in DOMAIN px.records :
              LET row == px.df.rows[px.origin[n]]
              IN  /\ px.records[n].depository =
                        Strip(Str(row.cells[FirstBound(px.df.columns, "depository")]))
                  /\ \A f \in {"registered", "eligible", "total"} :
                        px.records[n][f] =
                            IF FirstBound(px.df.columns, f) = 0 THEN Absent
                            ELSE clean_numeric_string(row.cells[FirstBound(px.df.columns, f)])

\* under the column names Depository, Registered, Prior Registered, Total
\* the record of a row with 1500 in the second column and nothing in the
\* third has no registered figure
C25_Witness ==
    /\ px.op = "parse_inventory" /\ px.pc = "done"
    /\ px.df.found
    /\ px.df.columns[3] = <<"P", "r", "i", "o", "r", " ", "R", "e", "g", "i", "s", "t", "e", "r", "e", "d">>
    /\ Len(px.records) = 1
    /\ px.df.rows[px.origin[1]].cells[2] = NumCell(15, 2)
    /\ px.records[1].registered = Absent
    /\ px.records[1].total = Float(9, 0)

\* C27 as stated: whenever the header row at one of the offsets 5 .. 14 has
\* a column name the column mapper binds to depository, _read_data_table
\* finds a table.
C27_ProbeAgreesWithMapper ==
    (px.op = "parse_inventory" /\ px.read_table) =>
        ((\E k \in 5..14 :
            /\ k < Len(px.file.rows)
            /\ \E c \in DOMAIN ColumnsAt(px.file, k) :
                  FieldOf(ColumnsAt(px.file, k)[c]) = "depository") => px.df.found)

\* a sheet with the column names Depository Name, Registered, Eligible,
\* Total at offset 5 and a depository row: no table was found, no record
C27_Witness ==
    /\ px.op = "parse_inventory" /\ px.pc = "done"
    /\ px.read_table
    /\ Len(px.file.rows) = 7
    /\ px.file.rows[6] = ColumnsNamed
    /\ px.file.rows[7].cells[1] = StrCell(<<"B", "r", "i", "n", "k", "s">>)
    /\ ~px.df.found
    /\ px.df.tried = 5..14
    /\ px.records = <<>>

-----------------------------------------------------------------------------
(* Claims about the outcome of process_file and about the store as a whole *)

\* the status of the ledger row of path p in database d, NULL without row
StatusOf(d, p) ==
    IF \E r \in d.ledger : r.file_path = p
    THEN (CHOOSE r \in d.ledger : r.file_path = p).status
    ELSE NULL

\* an inventory or delivery file without records that process_file has
\* returned for is logged failed
NoRecordsLoggedFailed ==
    (pc = "returned" /\ cur.records = <<>> /\ cur.file_type # "unknown") =>
        /\ ~cur.result
        /\ StatusOf(db, cur.path) = "failed"

\* a process_all run without reprocess takes exactly the matching files whose
\* ledger row does not say success when the run scans: the files logged
\* failed before, and no file logged success
SelectedUnlessSuccess ==
    (runs' = runs + 1 /\ ~run'.direct /\ ~run'.reprocess) =>
        Range(run'.files) = {f \in run'.listed : StatusOf(db, f) # "success"}

\* C26 as stated: process_file returns True and the ledger says success if
\* and only if the extractor gave at least one record and the upsert did not
\* fail; a file without records is logged failed; a later run without
\* reprocess takes the files not logged success and no file logged success.
C26_SuccessIffRecords ==
    [][/\ pc' = "returned" =>
             (cur'.result <=> (cur'.records # <<>> /\ cur'.inserted))
       /\ pc' = "returned" => (cur'.result <=> StatusOf(db', cur'.path) = "success")
       /\ NoRecordsLoggedFailed'
       /\ SelectedUnlessSuccess]_vars

\* C26, amended: process_file returns True and the ledger says success if and
\* only if the extractor gave at least one record and neither the upsert
\* nor the ledger write of the try block failed; the rest as stated.
C26_SuccessIffRecordsAndLogged ==
    [][/\ pc' = "returned" =>
             (cur'.result <=> (cur'.records # <<>> /\ cur'.inserted /\ cur'.failed = NULL))
       /\ pc' = "returned" => (cur'.result <=> StatusOf(db', cur'.path) = "success")
       /\ NoRecordsLoggedFailed'
       /\ SelectedUnlessSuccess]_vars

\* a file logged failed for want of records by the first run was taken
\* again by the second, a run without reprocess; this time its records were
\* stored, the ledger write of success failed, and process_file returned
\* False with the file logged failed
C26_Witness ==
    /\ pc = "returned"
    /\ runs = 2 /\ ~run.direct /\ ~run.reprocess
    /\ cur.records # <<>> /\ cur.inserted
    /\ cur.failed = "log"
    /\ ~cur.result
    /\ StatusOf(db, cur.path) = "failed"
    /\ lastLog[cur.path].replaced = "failed"

\* the keys of the rows of a table
Keys(tbl, table) == {KeyOf(tbl, r) : r \in table}

\* C29: no step of a run (an upsert, a ledger write, a failed or rolled
\* back attempt, a forced re-processing that ends in failed) removes a key
\* from the inventory or the delivery table or a path from the ledger.
C29_StoreOnlyGrows ==
    [][/\ Keys("inventory", db.inventory) \subseteq Keys("inventory", db'.inventory)
       /\ Keys("delivery", db.delivery) \subseteq Keys("delivery", db'.delivery)
       /\ Keys("ledger", db.ledger) \subseteq Keys("ledger", db'.ledger)]_vars

\* the records a first run stored for the delivery file are still there
\* after a forced second run has overwritten its ledger row success with failed
C29_Witness ==
    /\ runs = 2 /\ run.reprocess
    /\ AllPaths[1] \in DOMAIN lastLog
    /\ lastLog[AllPaths[1]].replaced = "success"
    /\ lastLog[AllPaths[1]].row.status = "failed"
    /\ \E r \in db.delivery : r.source_file = AllPaths[1]


-----------------------------------------------------------------------------
\* CMEDownloader._retry_request: one HTTP request with retries

\* the default of max_retries and the unit of the wait between attempts
MAX_RETRIES == 3

RETRY_DELAY == 2

\* largest max_retries an input carries
MaxRetries == 4

ConnectionError == "ConnectionError"

Timeout == "Timeout"

HTTPError == "HTTPError"

\* what the except clause catches; any other exception leaves the function
RequestException == {ConnectionError, Timeout, HTTPError}

StatusCodes == {200, 204, 404, 503}

\* the value of the function: none yet, None, or the response
Pending == [kind |-> "pending", status_code |-> 0]

None == [kind |-> "None", status_code |-> 0]

Response(status_code) == [kind |-> "response", status_code |-> status_code]

\* response.raise_for_status(): HTTPError for a 4xx or 5xx status
raise_for_status(response) ==
    IF response.status_code >= 400 /\ response.status_code < 600
    THEN HTTPError ELSE NULL

\* the try body: session.get returns a response or raises, then
\* raise_for_status; raised is the exception that leaves the try body
TryOutcomes ==
    {[raised |-> raise_for_status(Response(c)), status_code |-> c] : c \in StatusCodes}
    \cup {[raised |-> e, status_code |-> 0] :
            e \in {ConnectionError, Timeout, KeyboardInterrupt}}

SleepsAfterEveryFailure(attempt, max_retries) == attempt < max_retries

\* if attempt < max_retries - 1
SleepsAfter(attempt, max_retries) == attempt < max_retries - 1

\* RETRY_DELAY * (attempt + 1)
Backoff(attempt) == RETRY_DELAY * (attempt + 1)

\* pc: "loop", at the head of the for loop with the next value of attempt;
\* "except", in the except clause; "sleep", about to sleep; "done", returned
\* result; "raised", left by an exception. history: trace, the calls of
\* session.get (with raise_for_status) and time.sleep in order; log, the
\* levels of the lines logged
InitRetry ==
    /\ NoEtl
    /\ px \in {[op |-> "_retry_request", pc |-> "loop", max_retries |-> m,
                attempt |-> 0, trace |-> <<>>, log |-> <<>>,
                result |-> Pending] : m \in {MAX_RETRIES} \cup (-1..MaxRetries)}

\* one pass of the try body
RetryRequest ==
    /\ px.op = "_retry_request" /\ px.pc = "loop"
    /\ px.attempt < px.max_retries
    /\ \E o \in TryOutcomes :
         px' = [px EXCEPT
                  !.trace = Append(px.trace,
                                   [call |-> "get", attempt |-> px.attempt + 1,
                                    raised |-> o.raised,
                                    status_code |-> o.status_code, seconds |-> 0]),
                  !.log = Append(px.log, "info"),
                  !.result = IF o.raised = NULL THEN Response(o.status_code)
                             ELSE px.result,
                  !.pc = IF o.raised = NULL THEN "done"
                         ELSE IF o.raised \in RequestException THEN "except"
                         ELSE "raised"]
    /\ UNCHANGED <<storeVars, dataDir, pc, run, cur, runs>>

\* the except clause up to the sleep
RetryExcept ==
    /\ px.op = "_retry_request" /\ px.pc = "except"
    /\ px' = IF SleepsAfter(px.attempt, px.max_retries)
             THEN [px EXCEPT !.log = Append(px.log, "warning"), !.pc = "sleep"]
             ELSE [px EXCEPT !.log = px.log \o <<"warning", "error">>,
                             !.attempt = px.attempt + 1, !.pc = "loop"]
    /\ UNCHANGED <<storeVars, dataDir, pc, run, cur, runs>>

\* time.sleep(RETRY_DELAY * (attempt + 1)), which an interrupt can end
RetrySleep ==
    /\ px.op = "_retry_request" /\ px.pc = "sleep"
    /\ \E e \in {NULL, KeyboardInterrupt} :
         px' = [px EXCEPT
                  !.trace = Append(px.trace,
                                   [call |-> "sleep", attempt |-> px.attempt + 1,
                                    raised |-> e, status_code |-> 0,
                                    seconds |-> Backoff(px.attempt)]),
                  !.attempt = IF e = NULL THEN px.attempt + 1 ELSE px.attempt,
                  !.pc = IF e = NULL THEN "loop" ELSE "raised"]
    /\ UNCHANGED <<storeVars, dataDir, pc, run, cur, runs>>

\* the loop is exhausted: return None
RetryReturnNone ==
    /\ px.op = "_retry_request" /\ px.pc = "loop"
    /\ px.attempt >= px.max_retries
    /\ px' = [px EXCEPT !.result = None, !.pc = "done"]
    /\ UNCHANGED <<storeVars, dataDir, pc, run, cur, runs>>

RetryNext ==
    \/ RetryRequest
    \/ RetryExcept
    \/ RetrySleep
    \/ RetryReturnNone

\* the interpreter runs the one thread of the function on; session.get has
\* a timeout and time.sleep a finite argument
SpecRetry == InitRetry /\ [][RetryNext]_vars /\ WF_vars(RetryNext)

-----------------------------------------------------------------------------
\* Claims about _retry_request

\* the places of the HTTP attempts in the trace
Gets == {i \in DOMAIN px.trace : px.trace[i].call = "get"}

\* the places of the waits in the trace
Sleeps == {i \in DOMAIN px.trace : px.trace[i].call = "sleep"}

FailedAttempt(entry) == entry.call = "get" /\ entry.raised \in RequestException

\* the number of attempts max_retries allows
Allowed == IF px.max_retries > 0 THEN px.max_retries ELSE 0

RetryReturned == px.pc = "done"

RetryOver == px.pc \in {"done", "raised"}

AttemptsAndWaits ==
    /\ Cardinality(Gets) <= Allowed
    /\ \A i \in Gets :
         /\ px.trace[i].attempt = Cardinality({j \in Gets : j <= i})
         /\ px.trace[i].raised = NULL =>
              /\ i = Len(px.trace)
              /\ RetryReturned
              /\ px.result = Response(px.trace[i].status_code)
              /\ \A j \in Gets : j < i => FailedAttempt(px.trace[j])
         /\ i < Len(px.trace) => (i + 1) \in Sleeps
         /\ (FailedAttempt(px.trace[i]) /\ px.trace[i].attempt = Allowed) =>
              i = Len(px.trace)
         /\ (FailedAttempt(px.trace[i]) /\ px.trace[i].attempt < Allowed
               /\ px.pc \in {"loop", "done"}) => (i + 1) \in Sleeps
    /\ \A i \in Sleeps :
         /\ i > 1
         /\ FailedAttempt(px.trace[i - 1])
         /\ px.trace[i - 1].attempt < Allowed
         /\ px.trace[i].seconds = RETRY_DELAY * px.trace[i - 1].attempt
    /\ RetryReturned =>
         /\ px.result # Pending
         /\ px.result = None <=>
              /\ Cardinality(Gets) = Allowed
              /\ \A i \in Gets : FailedAttempt(px.trace[i])

====
